---- MODULE Spec2Model ----
(***************************************************************************)
(* Model of the Datacube class of paramp/datacube/datacube.py: the table   *)
(* buffer, the field list and field map, the row cursor and the committed  *)
(* length, with one operator per method and one action per public call.    *)
(*                                                                         *)
(* Python indices are 0-based; TLA+ sequences are 1-based, so the element  *)
(* at Python index i of a list or of the table is the element i + 1 of the *)
(* sequence that models it.  An optional argument is None (the empty       *)
(* sequence) or Some(x) (the one-element sequence).                        *)
(***************************************************************************)
EXTENDS Integers, Sequences, FiniteSets, TLC

VARIABLES fieldNames, fieldMap, table, length, index, unsaved, _children, _parent, pc,
          childFieldNames

vars == <<fieldNames, fieldMap, table, length, index, unsaved, _children, _parent, pc,
          childFieldNames>>

-----------------------------------------------------------------------------
(* Bounds of the model and program constants *)

MaxRow == 2

MaxCols == 2

ColRows == 0

MaxNames == 120

MaxNodes == 4

Reserve == 500

ColNames == {"a", "b"}

Values == {1}

-----------------------------------------------------------------------------
(* Python values and list operations *)

None == << >>

Some(x) == <<x>>

Max(x, y) == IF x >= y THEN x ELSE y

Min(x, y) == IF x <= y THEN x ELSE y

InList(seq, x) == \E i \in 1..Len(seq) : seq[i] = x

ListIndex(seq, x) == (CHOOSE i \in 1..Len(seq) : seq[i] = x /\ \A j \in 1..(i - 1) : seq[j] # x) - 1

ListInsert(seq, i, x) == SubSeq(seq, 1, i) \o <<x>> \o SubSeq(seq, i + 1, Len(seq))

ListDel(seq, i) == SubSeq(seq, 1, i) \o SubSeq(seq, i + 2, Len(seq))

(* The concatenation of the lists of a list.                               *)
RECURSIVE Concat(_)
Concat(lists) == IF Len(lists) = 0 THEN << >> ELSE lists[1] \o Concat(Tail(lists))

(* Bind(v, F) is F(v), with v evaluated once.                              *)
Bind(v, F(_)) == CHOOSE r \in {F(x) : x \in {v}} : TRUE

SliceIndex(n, i) == IF i < 0 THEN Max(n + i, 0) ELSE Min(i, n)

-----------------------------------------------------------------------------
(* The object: its fields, the events of the running call and whether the  *)
(* running call has raised                                                 *)

Self == [fieldNames |-> fieldNames, fieldMap |-> fieldMap, table |-> table,
         length |-> length, index |-> index, unsaved |-> unsaved,
         events |-> << >>, raised |-> FALSE]

notify(s, event) == [s EXCEPT !.events = Append(@, event)]

raise(s) == [s EXCEPT !.raised = TRUE]

setModified(s) == [s EXCEPT !.unsaved = TRUE]

initialize == [fieldNames |-> << >>, fieldMap |-> << >>, table |-> << >>,
               length |-> 0, index |-> 0, unsaved |-> TRUE,
               events |-> << >>, raised |-> FALSE]

NbrCols(ta) == IF Len(ta) = 0 THEN 0 ELSE Len(ta[1])

table_(s) == SubSeq(s.table, 1, s.length)

(* The map the loop of updateFieldMap builds from a field list: the last  *)
(* index of a name wins.                                                   *)
FieldMapOf(fN) ==
    [f \in {fN[i] : i \in 1..Len(fN)} |->
        (CHOOSE i \in 1..Len(fN) : fN[i] = f /\ \A j \in (i + 1)..Len(fN) : fN[j] # f) - 1]

(* A variant of updateFieldMap that does not start from an empty map: the   *)
(* names that left the field list keep their entry.                        *)
updateFieldMapKeep(s) ==
    [s EXCEPT !.fieldMap =
        [f \in DOMAIN s.fieldMap \cup DOMAIN FieldMapOf(s.fieldNames) |->
            IF f \in DOMAIN FieldMapOf(s.fieldNames)
            THEN FieldMapOf(s.fieldNames)[f] ELSE s.fieldMap[f]]]

updateFieldMap(s) == [s EXCEPT !.fieldMap = FieldMapOf(s.fieldNames)]

ZeroRows(n, nbrCols) ==
    LET zero == [c \in 1..nbrCols |-> 0] IN [r \in 1..n |-> zero]

(* ndarray.resize((nbrRows, nbrCols)): the elements keep their place in    *)
(* the row-major order of the data, and the new elements are zero.  Only   *)
(* the first rows can hold old elements; the others are zero.              *)
_resize(ta, nbrRows, nbrCols) ==
    LET oldCols == NbrCols(ta)
        oldSize == Len(ta) * oldCols
        filled == IF nbrCols = 0 THEN 0
                  ELSE Min(nbrRows, (oldSize + nbrCols - 1) \div nbrCols)
    IN [r \in 1..filled |-> [c \in 1..nbrCols |->
            LET k == (r - 1) * nbrCols + (c - 1)
            IN IF k < oldSize THEN ta[(k \div oldCols) + 1][(k % oldCols) + 1] ELSE 0]]
       \o ZeroRows(nbrRows - filled, nbrCols)

(* A variant of _adjustTable that rebuilds the table by position: column   *)
(* i of the new table is column i of the old one, whatever its name.       *)
_adjustTableByPosition(s, rowIndex, notifyFields, reserve) ==
    LET fN == s.fieldNames
        ta == s.table
        nbrCols == Len(fN)
        ri == IF rowIndex = None THEN s.length - 1 ELSE rowIndex[1]
        nR == Max(ri + 2 + Max(reserve, 0), Len(ta))
    IN Bind([r \in 1..Len(ta) |-> [i \in 1..nbrCols |->
                IF i <= Len(ta[r]) THEN ta[r][i] ELSE 0]]
            \o ZeroRows(nR - Len(ta), nbrCols),
            LAMBDA newTable :
                [s EXCEPT !.table = newTable, !.fieldMap = FieldMapOf(fN)])

(* _adjustTable: resizes the table when room is missing, rebuilds it when  *)
(* the field list no longer agrees with the field map, then regenerates    *)
(* the field map.  rowIndex is optional (None: length - 1).  Evaluating    *)
(* fieldNames[fieldMap[field]] for every field raises when an index of the *)
(* map lies beyond the list.                                               *)
_adjustTable(s, rowIndex, notifyFields, reserve) ==
    LET fN == s.fieldNames
        fM == s.fieldMap
        ta == s.table
        nbrCols == Len(fN)
        ri == IF rowIndex = None THEN s.length - 1 ELSE rowIndex[1]
        nbrRows == ri + 2 + Max(reserve, 0)
        sameLen == Len(fN) = Cardinality(DOMAIN fM)
        indexError == sameLen /\ \E f \in DOMAIN fM : fM[f] >= Len(fN)
        unchangedCols == sameLen /\ \A f \in DOMAIN fM : fN[fM[f] + 1] = f
        oneDim == Len(ta) = 0 /\ \E i \in 1..nbrCols : fN[i] \in DOMAIN fM
        nR == Max(nbrRows, Len(ta))
    IN IF indexError THEN raise(s)
       ELSE IF ~unchangedCols /\ oneDim THEN raise(s)
       ELSE Bind(IF unchangedCols
                 THEN IF ri >= Len(ta) THEN _resize(ta, nbrRows, nbrCols) ELSE ta
                 ELSE [r \in 1..Len(ta) |-> [i \in 1..nbrCols |->
                          IF fN[i] \in DOMAIN fM THEN ta[r][fM[fN[i]] + 1] ELSE 0]]
                      \o ZeroRows(nR - Len(ta), nbrCols),
                 LAMBDA newTable :
                    Bind(updateFieldMap([s EXCEPT !.table = newTable]), LAMBDA s1 :
                        IF notifyFields THEN notify(s1, <<"names", fN>>) ELSE s1))

(* A variant of extendTo that never validates rows.                        *)
extendToTableOnly(s, rowIndex, reserve, extendLength) ==
    _adjustTable(s, Some(IF rowIndex = None THEN s.index ELSE rowIndex[1]), FALSE, reserve)

(* A variant of extendTo that validates the rows whatever extendLength.    *)
extendToAlways(s, rowIndex, reserve, extendLength) ==
    LET ri == IF rowIndex = None THEN s.index ELSE rowIndex[1]
    IN Bind(_adjustTable(s, Some(ri), FALSE, reserve), LAMBDA s1 :
            IF s1.raised THEN s1
            ELSE IF ri >= s1.length THEN [s1 EXCEPT !.length = ri + 1] ELSE s1)

(* A variant of extendTo that makes room without reserve.                  *)
extendToNoReserve(s, rowIndex, reserve, extendLength) ==
    LET ri == IF rowIndex = None THEN s.index ELSE rowIndex[1]
    IN Bind(_adjustTable(s, Some(ri), FALSE, 0), LAMBDA s1 :
            IF s1.raised THEN s1
            ELSE IF extendLength /\ ri >= s1.length
                 THEN [s1 EXCEPT !.length = ri + 1]
                 ELSE s1)

(* extendTo: makes room for row rowIndex (None: the cursor) and, when      *)
(* extendLength is set, validates the rows up to it.                       *)
extendTo(s, rowIndex, reserve, extendLength) ==
    LET ri == IF rowIndex = None THEN s.index ELSE rowIndex[1]
    IN Bind(_adjustTable(s, Some(ri), FALSE, reserve), LAMBDA s1 :
            IF s1.raised THEN s1
            ELSE IF extendLength /\ ri >= s1.length
                 THEN [s1 EXCEPT !.length = ri + 1]
                 ELSE s1)

-----------------------------------------------------------------------------
(* Column management *)

MaxAutoNames == 1000

NoName == "None"

AutoName(i) == "New_" \o ToString(i)

(* A variant of columnIndex that finds no column.                          *)
columnIndexNotFound(s, name) == None

columnIndex(s, name) ==
    IF name \in DOMAIN s.fieldMap THEN Some(s.fieldMap[name]) ELSE None

columnName(s, i) ==
    IF \E key \in DOMAIN s.fieldMap : s.fieldMap[key] = i
    THEN CHOOSE key \in DOMAIN s.fieldMap : s.fieldMap[key] = i
    ELSE NoName

(* newColumnName: the loop leaves with the first free New_i, or with       *)
(* i > 1000; the name is returned only when i, already incremented, is     *)
(* still <= 1000.                                                          *)
newColumnName(s) ==
    LET names == s.fieldNames
        free(i) == ~InList(names, AutoName(i))
        stop == IF \E i \in 1..(MaxAutoNames - 1) : free(i)
                THEN CHOOSE i \in 1..(MaxAutoNames - 1) :
                        free(i) /\ \A j \in 1..(i - 1) : ~free(j)
                ELSE MaxAutoNames
    IN IF stop + 1 <= MaxAutoNames THEN AutoName(stop) ELSE NoName

(* sorted(nameIndexDict, key=nameIndexDict.get): the names by increasing   *)
(* index, None first.  The dictionary is a sequence of <<name, index>>.    *)
KeyLess(x, y) == IF x = None THEN y # None ELSE y # None /\ x[1] < y[1]

RECURSIVE SortedByIndex(_)
SortedByIndex(d) ==
    IF Len(d) = 0 THEN << >>
    ELSE LET m == CHOOSE i \in 1..Len(d) :
                     /\ \A j \in 1..Len(d) : ~KeyLess(d[j][2], d[i][2])
                     /\ \A j \in 1..(i - 1) : KeyLess(d[i][2], d[j][2])
         IN <<d[m]>> \o SortedByIndex(ListDel(d, m - 1))

(* The loop of _addFields over the sorted names.  The accumulator holds    *)
(* the field list, newField and the last colIndex; the field map is not    *)
(* touched by the loop.                                                    *)
(* A variant of _addFieldsLoop that resolves a negative index i as         *)
(* nbrCols + i.                                                            *)
RECURSIVE _addFieldsLoopFromEnd(_, _, _)
_addFieldsLoopFromEnd(s, acc, todo) ==
    IF Len(todo) = 0 THEN acc
    ELSE LET now == [s EXCEPT !.fieldNames = acc.fieldNames]
             given == todo[1][2]
             name == IF todo[1][1] = NoName THEN newColumnName(now) ELSE todo[1][1]
             existingColIndex == columnIndex(now, name)
             nbrCols == Len(acc.fieldNames)
             relative == IF given # None /\ given[1] < 0
                         THEN Some(Max(nbrCols + given[1], 0))
                         ELSE given
             colIndex == IF relative = None \/ relative[1] > nbrCols
                         THEN nbrCols ELSE relative[1]
         IN IF existingColIndex = None
            THEN _addFieldsLoopFromEnd(s,
                    [fieldNames |-> ListInsert(acc.fieldNames, colIndex, name),
                     newField |-> TRUE, colIndex |-> Some(colIndex)],
                    Tail(todo))
            ELSE _addFieldsLoopFromEnd(s,
                    [fieldNames |-> acc.fieldNames, newField |-> acc.newField,
                     colIndex |-> existingColIndex],
                    Tail(todo))

RECURSIVE _addFieldsLoop(_, _, _)
_addFieldsLoop(s, acc, todo) ==
    IF Len(todo) = 0 THEN acc
    ELSE LET now == [s EXCEPT !.fieldNames = acc.fieldNames]
             given == todo[1][2]
             name == IF todo[1][1] = NoName THEN newColumnName(now) ELSE todo[1][1]
             existingColIndex == columnIndex(now, name)
             nbrCols == Len(acc.fieldNames)
             relative == IF given # None /\ given[1] < 0
                         THEN Some(Max(nbrCols + given[1] + 1, 0))
                         ELSE given
             colIndex == IF relative = None \/ relative[1] > nbrCols
                         THEN nbrCols ELSE relative[1]
         IN IF existingColIndex = None
            THEN _addFieldsLoop(s,
                    [fieldNames |-> ListInsert(acc.fieldNames, colIndex, name),
                     newField |-> TRUE, colIndex |-> Some(colIndex)],
                    Tail(todo))
            ELSE _addFieldsLoop(s,
                    [fieldNames |-> acc.fieldNames, newField |-> acc.newField,
                     colIndex |-> existingColIndex],
                    Tail(todo))

(* _addFields returns the object together with (newField, colIndex).       *)
_addFields(s, nameIndexDict, adjustTable) ==
    LET r == _addFieldsLoop(s, [fieldNames |-> s.fieldNames, newField |-> FALSE,
                                colIndex |-> None],
                            SortedByIndex(nameIndexDict))
        s1 == [s EXCEPT !.unsaved = TRUE, !.fieldNames = r.fieldNames]
    IN [s |-> IF adjustTable THEN _adjustTable(s1, None, TRUE, 0) ELSE s1,
        newField |-> r.newField, colIndex |-> r.colIndex]

-----------------------------------------------------------------------------
(* Row management *)

(* goTo: the only test is row <= length.                                   *)
goTo(s, row) == IF row <= s.length THEN [s EXCEPT !.index = row] ELSE s

commitRow(s, rowIndex) == IF rowIndex = None THEN s.index ELSE rowIndex[1]

(* A variant of commit that validates the row without making room for it.  *)
commitNoRoom(s, rowIndex, gotoNextRow) ==
    LET ri == IF rowIndex = None THEN s.index ELSE rowIndex[1]
    IN [s EXCEPT !.length = IF ri >= @ THEN ri + 1 ELSE @,
                 !.index = IF gotoNextRow THEN ri + 1 ELSE @,
                 !.events = Append(@, <<"commit", ri>>),
                 !.unsaved = TRUE]

(* A variant of commit that leaves the cursor where it is.                 *)
commitStay(s, rowIndex, gotoNextRow) ==
    LET ri == IF rowIndex = None THEN s.index ELSE rowIndex[1]
    IN Bind(IF ri >= s.length THEN extendTo(s, Some(ri), 0, TRUE) ELSE s, LAMBDA s1 :
            IF s1.raised THEN s1
            ELSE [s1 EXCEPT !.events = Append(@, <<"commit", ri>>),
                            !.unsaved = TRUE])

(* commit: validates row rowIndex (None: the cursor), moves the cursor to  *)
(* the next row when gotoNextRow is set, and notifies.                     *)
commit(s, rowIndex, gotoNextRow) ==
    LET ri == commitRow(s, rowIndex)
    IN Bind(IF ri >= s.length THEN extendTo(s, Some(ri), 0, TRUE) ELSE s, LAMBDA s1 :
            IF s1.raised THEN s1
            ELSE [s1 EXCEPT !.index = IF gotoNextRow THEN ri + 1 ELSE @,
                            !.events = Append(@, <<"commit", ri>>),
                            !.unsaved = TRUE])

(* The names set() creates: those of columnOrder, then those of keys, that *)
(* are not columns yet.                                                    *)
RECURSIVE AppendNew(_, _, _)
AppendNew(acc, candidates, existingKeys) ==
    IF Len(candidates) = 0 THEN acc
    ELSE AppendNew(
            IF ~InList(acc, candidates[1]) /\ ~InList(existingKeys, candidates[1])
            THEN Append(acc, candidates[1]) ELSE acc,
            Tail(candidates), existingKeys)

RECURSIVE AppendOrdered(_, _, _)
AppendOrdered(acc, columnOrder, existingKeys) ==
    IF Len(columnOrder) = 0 THEN acc
    ELSE AppendOrdered(
            IF ~InList(existingKeys, columnOrder[1])
            THEN Append(acc, columnOrder[1]) ELSE acc,
            Tail(columnOrder), existingKeys)

RECURSIVE WriteKeys(_, _, _, _)
WriteKeys(ta, fM, rowIndex, keys) ==
    IF Len(keys) = 0 THEN ta
    ELSE WriteKeys([ta EXCEPT ![rowIndex + 1][fM[keys[1][1]] + 1] = keys[1][2]],
                   fM, rowIndex, Tail(keys))

(* A variant of setRow that ignores rowIndex and takes the cursor.         *)
setRowCursor(s, rowIndex) == IF s.index < 0 THEN 0 ELSE s.index

(* The row set() writes: the cursor when rowIndex is None, length +        *)
(* rowIndex when it is negative, and row 0 when the result is negative.    *)
setRow(s, rowIndex) ==
    LET r0 == IF rowIndex = None THEN s.index
              ELSE IF rowIndex[1] < 0 THEN s.length + rowIndex[1]
              ELSE rowIndex[1]
    IN IF r0 < 0 THEN 0 ELSE r0

(* set: keys is the sequence of <<name, value>> in the order the keyword   *)
(* dictionary is iterated; columnOrder is a sequence of names (empty when  *)
(* not given).                                                             *)
set(s, rowIndex, notifyArg, commitArg, columnOrder, extendLength, keys) ==
    LET existingKeys == s.fieldNames
        keyNames == [i \in 1..Len(keys) |-> keys[i][1]]
        specifiedKeys == AppendNew(AppendOrdered(<< >>, columnOrder, existingKeys),
                                   keyNames, existingKeys)
        nameIndexDict == [i \in 1..Len(specifiedKeys) |->
                            <<specifiedKeys[i], Some(Len(existingKeys) + i - 1)>>]
        newData == Len(keys) > 0
    IN Bind(_addFields(s, nameIndexDict, FALSE), LAMBDA added :
       Bind(extendTo(added.s, Some(setRow(added.s, rowIndex)), Reserve, extendLength),
            LAMBDA s2 :
       IF s2.raised THEN s2
       ELSE Bind([s2 EXCEPT !.table = WriteKeys(@, s2.fieldMap,
                                                setRow(added.s, rowIndex), keys),
                            !.events = IF added.newField
                                       THEN Append(@, <<"names", s2.fieldNames>>)
                                       ELSE @],
                 LAMBDA s4 :
            Bind(IF newData /\ commitArg
                 THEN commit(s4, Some(setRow(added.s, rowIndex)), TRUE)
                 ELSE IF newData /\ notifyArg
                      THEN notify(s4, <<"commit", setRow(added.s, rowIndex)>>)
                      ELSE s4,
                 LAMBDA s5 :
                    IF s5.raised THEN s5 ELSE [s5 EXCEPT !.unsaved = TRUE]))))

(* table[dLo:dHi, :] = table[sLo:sHi, :] on a table of n rows: the slice   *)
(* bounds are resolved as Python resolves them, the source rows are read   *)
(* before any is written, one source row is repeated as often as needed,   *)
(* and any other difference of sizes (or a table of one dimension) raises. *)
AssignRows(ta, dLo, dHi, sLo, sHi) ==
    LET n == Len(ta)
        d0 == SliceIndex(n, dLo)
        d1 == Max(SliceIndex(n, dHi), d0)
        s0 == SliceIndex(n, sLo)
        s1 == Max(SliceIndex(n, sHi), s0)
        nd == d1 - d0
        ns == s1 - s0
    IN IF n = 0 \/ (nd # ns /\ ns # 1)
       THEN [ok |-> FALSE, table |-> ta]
       ELSE [ok |-> TRUE,
             table |-> SubSeq(ta, 1, d0)
                       \o (IF nd = ns THEN SubSeq(ta, s0 + 1, s1)
                           ELSE [r \in 1..nd |-> ta[s0 + 1]])
                       \o SubSeq(ta, d1 + 1, n)]

(* A variant of removeRow that leaves the cursor alone when it is on the   *)
(* removed row.                                                            *)
removeRowStrict(s, row, notifyArg) ==
    IF row < s.length
    THEN Bind(AssignRows(s.table, row, -1, row + 1, Len(s.table)), LAMBDA moved :
            IF ~moved.ok THEN raise(setModified(s))
            ELSE [s EXCEPT !.unsaved = TRUE,
                           !.table = moved.table,
                           !.length = @ - 1,
                           !.index = IF @ > row THEN @ - 1 ELSE @])
    ELSE [s EXCEPT !.unsaved = TRUE,
                   !.index = IF @ > row THEN @ - 1 ELSE @]

(* removeRow: copies the rows after row one row up, over the whole buffer, *)
(* and moves the cursor.                                                   *)
removeRow(s, row, notifyArg) ==
    IF row < s.length
    THEN Bind(AssignRows(s.table, row, -1, row + 1, Len(s.table)), LAMBDA moved :
            IF ~moved.ok THEN raise(setModified(s))
            ELSE [s EXCEPT !.unsaved = TRUE,
                           !.table = moved.table,
                           !.length = @ - 1,
                           !.index = IF @ >= row THEN @ - 1 ELSE @,
                           !.events = IF notifyArg
                                      THEN Append(@, <<"commit", row>>) ELSE @])
    ELSE [s EXCEPT !.unsaved = TRUE,
                   !.index = IF @ >= row THEN @ - 1 ELSE @,
                   !.events = IF notifyArg THEN Append(@, <<"commit", row>>) ELSE @]

(* A variant of reversed(sorted(rows)) that keeps the order given.         *)
Unsorted(rows) == rows

(* reversed(sorted(rows)) *)
RECURSIVE ReversedSorted(_)
ReversedSorted(rows) ==
    IF Len(rows) = 0 THEN << >>
    ELSE LET m == CHOOSE i \in 1..Len(rows) : \A j \in 1..Len(rows) : rows[j] <= rows[i]
         IN <<rows[m]>> \o ReversedSorted(ListDel(rows, m - 1))

RECURSIVE removeRowsLoop(_, _, _)
removeRowsLoop(s, sortedRows, notifyArg) ==
    IF Len(sortedRows) = 0 \/ s.raised THEN s
    ELSE Bind(removeRow(s, sortedRows[1], FALSE), LAMBDA s1 :
            removeRowsLoop(IF notifyArg /\ ~s1.raised
                           THEN notify(s1, <<"commit", sortedRows[1]>>) ELSE s1,
                           Tail(sortedRows), notifyArg))

removeRows(s, rows, notifyArg) ==
    IF Len(rows) # 0 THEN removeRowsLoop(s, ReversedSorted(rows), notifyArg) ELSE s

addRow(s, notifyArg) == commit(setModified(s), Some(s.length), FALSE)

(* The row insertRow() frees: before or after rowIndex (None: the cursor;  *)
(* negative: length + rowIndex).                                           *)
insertIndex(s, rowIndex, before) ==
    LET i0 == IF rowIndex = None THEN s.index
              ELSE IF rowIndex[1] < 0 THEN s.length + rowIndex[1]
              ELSE rowIndex[1]
    IN IF before THEN i0 ELSE i0 + 1

(* insertRow: rowIndex is optional (None: the cursor); keys as for set.    *)
insertRow(s, rowIndex, before, notifyArg, commitArg, keys) ==
    LET oldIndex == s.index
        at == insertIndex(s, rowIndex, before)
        shift == at < s.length
    IN Bind(IF shift THEN extendTo(setModified(s), Some(s.length), 0, FALSE)
            ELSE setModified(s),
            LAMBDA s1 :
       IF s1.raised THEN s1
       ELSE Bind(IF shift THEN AssignRows(s1.table, at + 1, Len(s1.table), at, -1)
                 ELSE [ok |-> TRUE, table |-> s1.table],
                 LAMBDA moved :
            IF ~moved.ok THEN raise(s1)
            ELSE Bind([s1 EXCEPT !.table = moved.table], LAMBDA s2 :
                 Bind(set(s2, Some(at), FALSE, FALSE, << >>, FALSE, keys), LAMBDA s3 :
                 IF s3.raised THEN s3
                 ELSE Bind([s3 EXCEPT !.index = IF oldIndex >= at THEN @ + 1 ELSE @],
                           LAMBDA s4 :
                        IF commitArg THEN commit(s4, Some(at), TRUE)
                        ELSE IF notifyArg THEN notify(s4, <<"commit", at>>)
                        ELSE s4)))))

(* clearRow: self._table[index, i] = 0 for every column; a negative index  *)
(* counts from the end of the buffer, an index outside it raises.          *)
clearRow(s) ==
    LET n == Len(s.table)
        r == IF s.index < 0 THEN n + s.index ELSE s.index
    IN IF r < 0 \/ r >= n THEN raise(setModified(s))
       ELSE [s EXCEPT !.unsaved = TRUE,
                      !.table[r + 1] = [c \in 1..Len(@) |-> 0],
                      !.events = Append(@, <<"clearRow">>)]

-----------------------------------------------------------------------------
(* Columns: creation, renaming, removal *)

RECURSIVE WriteColumn(_, _, _, _)
WriteColumn(ta, offsetRow, col, values) ==
    IF Len(values) = 0 THEN ta
    ELSE WriteColumn([ta EXCEPT ![offsetRow + 1][col + 1] = values[1]],
                     offsetRow + 1, col, Tail(values))

(* A variant of createCol that does not extend the length to the end of    *)
(* the values: the slice of the table that receives the values is then too *)
(* short when they reach beyond the buffer, and the assignment raises.     *)
createColKeepLength(s, name, colIndexArg, offsetRowArg, values, notifyArg) ==
    Bind(_addFields(setModified(s), <<<<name, colIndexArg>>>>, FALSE), LAMBDA added :
        LET s1 == added.s
            o0 == IF offsetRowArg < 0 THEN s1.length + offsetRowArg + 1 ELSE offsetRowArg
            offsetRow == IF o0 < 0 THEN 0 ELSE o0
        IN Bind(_adjustTable(s1, None, FALSE, 0), LAMBDA s3 :
                IF s3.raised \/ values = None THEN s3
                ELSE IF offsetRow + Len(values[1]) > Len(s3.table) THEN raise(s3)
                ELSE [s3 EXCEPT !.table = WriteColumn(@, offsetRow, added.colIndex[1],
                                                      values[1])]))

(* createCol: name is a column name or NoName, columnIndex and values are  *)
(* optional.                                                               *)
createCol(s, name, colIndexArg, offsetRowArg, values, notifyArg) ==
    Bind(_addFields(setModified(s), <<<<name, colIndexArg>>>>, FALSE), LAMBDA added :
        LET s1 == added.s
            o0 == IF offsetRowArg < 0 THEN s1.length + offsetRowArg + 1 ELSE offsetRowArg
            offsetRow == IF o0 < 0 THEN 0 ELSE o0
            maxRow == offsetRow + Len(values[1])
        IN Bind(_adjustTable(IF values # None /\ maxRow > s1.length
                             THEN [s1 EXCEPT !.length = maxRow] ELSE s1,
                             None, FALSE, 0),
                LAMBDA s3 :
                IF s3.raised THEN s3
                ELSE [s3 EXCEPT
                        !.table = IF values # None
                                  THEN WriteColumn(@, offsetRow, added.colIndex[1], values[1])
                                  ELSE @,
                        !.events = IF notifyArg
                                   THEN @ \o <<<<"names", s3.fieldNames>>>>
                                          \o (IF values # None THEN <<<<"commit">>>> ELSE << >>)
                                   ELSE @]))

renameColumn(s, oldName, newNameArg) ==
    LET newName == IF newNameArg = NoName THEN newColumnName(s) ELSE newNameArg
        fN == s.fieldNames
        renamed == IF InList(fN, oldName)
                   THEN [fN EXCEPT ![ListIndex(fN, oldName) + 1] = newName]
                   ELSE fN
    IN Bind([s EXCEPT !.unsaved = TRUE, !.fieldNames = renamed], LAMBDA s1 :
            notify(IF InList(fN, oldName) THEN updateFieldMap(s1) ELSE s1,
                   <<"names", renamed>>))

(* removeColumns: every entry of namesOrIndices is <<"name", n>> or        *)
(* <<"index", i>>.                                                         *)
RECURSIVE NamesToRemove(_, _, _)
NamesToRemove(s, namesOrIndices, names) ==
    IF Len(namesOrIndices) = 0 THEN names
    ELSE LET e == namesOrIndices[1]
         IN NamesToRemove(s, Tail(namesOrIndices),
                IF e[1] = "name"
                THEN IF InList(s.fieldNames, e[2]) THEN Append(names, e[2]) ELSE names
                ELSE IF e[2] < Len(s.fieldNames) THEN Append(names, columnName(s, e[2]))
                ELSE names)

RECURSIVE DeleteNames(_, _)
DeleteNames(fN, names) ==
    IF Len(names) = 0 THEN fN
    ELSE DeleteNames(IF InList(fN, names[1]) THEN ListDel(fN, ListIndex(fN, names[1])) ELSE fN,
                     Tail(names))

(* A variant of removeColumns that regenerates the field map without       *)
(* rebuilding the table.                                                   *)
removeColumnsMapOnly(s, namesOrIndices, notifyArg) ==
    updateFieldMap([s EXCEPT !.unsaved = TRUE,
                             !.fieldNames = DeleteNames(@, NamesToRemove(s, namesOrIndices, << >>))])

removeColumns(s, namesOrIndices, notifyArg) ==
    Bind(_adjustTable([s EXCEPT !.unsaved = TRUE,
                                !.fieldNames = DeleteNames(@, NamesToRemove(s, namesOrIndices, << >>))],
                      None, FALSE, 0),
         LAMBDA s3 :
            IF s3.raised THEN s3
            ELSE IF notifyArg
                 THEN [s3 EXCEPT !.events = @ \o << <<"names", s3.fieldNames>>,
                                                   <<"commit", s3.index>> >>]
                 ELSE s3)

(* sortBy: sorts the pairs (value, row) of the validated part of a column  *)
(* and keeps the rows of the table in that order.                          *)
(* A variant of PairLess that compares the rows of the pairs only.         *)
PairLessByRow(x, y) == x[2] < y[2]

PairLess(x, y) == x[1] < y[1] \/ (x[1] = y[1] /\ x[2] < y[2])

RECURSIVE SortedPairs(_, _)
SortedPairs(pairs, reverse) ==
    IF Len(pairs) = 0 THEN << >>
    ELSE LET m == CHOOSE i \in 1..Len(pairs) :
                     \A j \in 1..Len(pairs) :
                        j = i \/ (IF reverse THEN PairLess(pairs[j], pairs[i])
                                             ELSE PairLess(pairs[i], pairs[j]))
         IN <<pairs[m]>> \o SortedPairs(ListDel(pairs, m - 1), reverse)

column(s, name) ==
    IF name \in DOMAIN s.fieldMap
    THEN Some([r \in 1..Min(s.length, Len(s.table)) |-> s.table[r][s.fieldMap[name] + 1]])
    ELSE None

sortBy(s, columnArg, reverse) ==
    Bind(column(s, columnArg), LAMBDA col :
        IF col = None THEN raise(s)
        ELSE IF Len(col[1]) = 0 THEN raise(s)
        ELSE Bind(SortedPairs([i \in 1..Len(col[1]) |-> <<col[1][i], i - 1>>], reverse),
                  LAMBDA sortedIndices :
                    [s EXCEPT !.table = [i \in 1..Len(sortedIndices) |->
                                            s.table[sortedIndices[i][2] + 1]],
                              !.events = Append(@, <<"sortBy", columnArg>>)]))

Abs(x) == IF x < 0 THEN 0 - x ELSE x

(* numpy.allclose(a, b) with its default tolerances:                       *)
(* |a - b| <= 1e-8 + 1e-5 * |b|.  On integers d = |a - b| this is          *)
(* 100000 * d <= |b|, that is d <= |b| \div 100000.                        *)
allclose(a, b) == Abs(a - b) <= Abs(b) \div 100000

(* search: kwargs is the list of the <<name, value>> of the keyword        *)
(* arguments.  The result is [] as soon as a name is not a column (the     *)
(* test cols[key] == None is false for an array); without keyword argument *)
(* keys[0] raises.  The rows are those of column(): 0 .. length - 1.       *)
search(s, kwargs) ==
    IF \E k \in 1..Len(kwargs) : column(s, kwargs[k][1]) = None
    THEN [raised |-> FALSE, value |-> << >>]
    ELSE IF Len(kwargs) = 0 THEN [raised |-> TRUE, value |-> << >>]
    ELSE LET n == Len(column(s, kwargs[1][1])[1])
             found(i) == \A k \in 1..Len(kwargs) :
                            allclose(kwargs[k][2], column(s, kwargs[k][1])[1][i + 1])
         IN [raised |-> FALSE,
             value |-> SelectSeq([i \in 1..n |-> i - 1], found)]

(* saveToHdf5Object: writes the node to the file and clears the unsaved   *)
(* flag; the fields of the node are not changed.                           *)
saveToHdf5Object(s) == [s EXCEPT !.unsaved = FALSE]

-----------------------------------------------------------------------------
(* Children management.  The nodes are 1 .. MaxNodes; node 1 is the node   *)
(* whose table is modelled, the others are nodes as initialize() leaves    *)
(* them.  The hierarchy is the record of the fields _children (per node,   *)
(* the list of its ChildItem: datacube and attributes) and _parent (per    *)
(* node, NoParent for None), with the cursor and the unsaved flag of every *)
(* node, the events of the running call and whether it has raised.  Of the *)
(* nodes other than node 1 the column names are modelled too               *)
(* (childFieldNames): they are created there by createCol without values.  *)

Nodes == 1..MaxNodes

NoParent == 0

Tree == [children |-> _children, parent |-> _parent,
         fieldNames |-> [n \in Nodes |-> IF n = 1 THEN fieldNames ELSE childFieldNames[n]],
         index |-> [n \in Nodes |-> IF n = 1 THEN index ELSE initialize.index],
         unsaved |-> [n \in Nodes |-> IF n = 1 THEN unsaved ELSE initialize.unsaved],
         events |-> << >>, delivered |-> << >>, raised |-> FALSE]

(* notify on a node: observers are called at once, so next to the event    *)
(* the hierarchy is kept as an observer finds it during the call.          *)
notifyTree(h, event) ==
    [h EXCEPT !.events = Append(@, event),
              !.delivered = Append(@, [children |-> h.children, parent |-> h.parent])]

ChildItem(datacube, attributes) == [datacube |-> datacube, attributes |-> attributes]

setParent(h, self, parent) ==
    notifyTree([h EXCEPT !.parent[self] = parent], <<self, "metaUpdated">>)

(* children() without attributes: the datacubes of the items, in order.    *)
children(h, self) == [i \in 1..Len(h.children[self]) |-> h.children[self][i].datacube]

(* attributesOfChild: a copy of the attributes of the item of childCube,   *)
(* or None when the call raises because childCube is not a child.          *)
attributesOfChild(h, self, childCube) ==
    IF InList(children(h, self), childCube)
    THEN Some(h.children[self][ListIndex(children(h, self), childCube) + 1].attributes)
    ELSE None

(* setChildAttributes: the attributes it writes the key into are the copy  *)
(* that attributesOfChild returns, which is dropped when the call returns; *)
(* the call raises when childCube is not a child.                          *)
setChildAttributes(h, self, childCube, key, value) ==
    Bind(attributesOfChild(h, self, childCube), LAMBDA attributes :
        IF attributes = None THEN raise(h)
        ELSE LET written == (key :> value) @@ attributes[1]
             IN h)

(* removeChild: the loop runs over self._children while it removes items   *)
(* from it, so the item that follows a removed one is skipped; i is the    *)
(* position of the iterator (from 1).  The loop over the children of the   *)
(* removed child, when deleteChildCube is set, runs in the same way over a *)
(* list the recursive calls remove items from.  deleteChildCube is deleted *)
(* after that loop: reading it again, at a second match, raises.           *)
RECURSIVE removeChildLoop(_, _, _, _, _, _)
RECURSIVE removeDescendantsLoop(_, _, _)
RECURSIVE removeChild(_, _, _, _)

removeChildLoop(h, self, childCube, deleteChildCube, i, deleted) ==
    IF i > Len(h.children[self]) THEN [h EXCEPT !.unsaved[self] = TRUE]
    ELSE IF h.children[self][i].datacube # childCube
         THEN removeChildLoop(h, self, childCube, deleteChildCube, i + 1, deleted)
    ELSE Bind(notifyTree([setParent(h, childCube, NoParent) EXCEPT
                                !.children[self] = ListDel(@, i - 1)],
                         <<self, "removeChild", childCube>>),
              LAMBDA h1 :
                IF deleted THEN raise(h1)
                ELSE IF deleteChildCube
                THEN Bind(removeDescendantsLoop(h1, childCube, 1), LAMBDA h2 :
                        IF h2.raised THEN h2
                        ELSE removeChildLoop(h2, self, childCube, deleteChildCube,
                                             i + 1, TRUE))
                ELSE removeChildLoop(h1, self, childCube, deleteChildCube, i + 1, deleted))

removeDescendantsLoop(h, childCube, j) ==
    IF j > Len(h.children[childCube]) THEN h
    ELSE Bind(removeChild(h, childCube, h.children[childCube][j].datacube, TRUE),
              LAMBDA h1 :
                IF h1.raised THEN h1 ELSE removeDescendantsLoop(h1, childCube, j + 1))

removeChild(h, self, childCube, deleteChildCube) ==
    removeChildLoop(h, self, childCube, deleteChildCube, 1, FALSE)

(* The nodes that are reached from node n by one or more steps from a node *)
(* to a datacube of its _children.                                         *)
RECURSIVE ReachFrom(_, _, _)
ReachFrom(h, frontier, seen) ==
    LET next == {c \in Nodes : \E n \in frontier : InList(children(h, n), c)} \ seen
    IN IF next = {} THEN seen ELSE ReachFrom(h, next, seen \cup next)

Descendants(h, n) == ReachFrom(h, {n}, {})

Acyclic(h) == \A n \in Nodes : n \notin Descendants(h, n)

(* A variant of maxDepth that follows the first child only.               *)
RECURSIVE maxDepthFirstChild(_, _, _)
maxDepthFirstChild(h, self, initialDepth) ==
    IF initialDepth > MaxNodes THEN [diverges |-> TRUE, value |-> initialDepth]
    ELSE IF Len(children(h, self)) = 0 THEN [diverges |-> FALSE, value |-> initialDepth]
    ELSE maxDepthFirstChild(h, children(h, self)[1], initialDepth + 1)

(* maxDepth: the recursion over the children.  A branch of more than       *)
(* MaxNodes steps goes around a cycle, and the recursion on it never       *)
(* returns (Python ends it with the error of the recursion limit): the     *)
(* result is then diverges |-> TRUE.                                       *)
RECURSIVE maxDepth(_, _, _)
maxDepth(h, self, initialDepth) ==
    IF initialDepth > MaxNodes THEN [diverges |-> TRUE, value |-> initialDepth]
    ELSE IF Len(children(h, self)) = 0 THEN [diverges |-> FALSE, value |-> initialDepth]
    ELSE Bind([i \in 1..Len(children(h, self)) |->
                    maxDepth(h, children(h, self)[i], initialDepth + 1)],
              LAMBDA ds :
                 [diverges |-> \E i \in 1..Len(ds) : ds[i].diverges,
                  value |-> CHOOSE v \in {ds[i].value : i \in 1..Len(ds)} :
                                \A i \in 1..Len(ds) : ds[i].value <= v])

(* commonDepth: the while loop; cs is the list of the nodes of the level   *)
(* depth, all of which have children when depth > 0.  The loop returns at  *)
(* the first node of the level that has no children.  A level has such a   *)
(* node after less than MaxNodes levels when a node without children is    *)
(* reached at all; otherwise the loop never ends (diverges |-> TRUE).      *)
RECURSIVE commonDepthLoop(_, _, _)
commonDepthLoop(h, cs, depth) ==
    IF depth > MaxNodes THEN [diverges |-> TRUE, value |-> depth]
    ELSE IF \E i \in 1..Len(cs) : Len(children(h, cs[i])) = 0
    THEN [diverges |-> FALSE, value |-> depth]
    ELSE commonDepthLoop(h, Concat([i \in 1..Len(cs) |-> children(h, cs[i])]), depth + 1)

commonDepth(h, self) ==
    IF Len(children(h, self)) = 0 THEN [diverges |-> FALSE, value |-> 0]
    ELSE commonDepthLoop(h, children(h, self), 1)

(* names: the value is the list of the column names; with includeChildren *)
(* and flatten it is the list, followed by the names of the descendants in *)
(* the order of a Python set (rest, modelled as the set); with              *)
(* includeChildren and without flatten it is [names, new].  A negative     *)
(* upToLevel calls self.depth(), which Datacube does not define: the call  *)
(* raises.                                                                 *)
RECURSIVE names(_, _, _, _, _)
names(h, self, includeChildren, upToLevel, flatten) ==
    IF ~includeChildren
    THEN [raised |-> FALSE, value |-> h.fieldNames[self]]
    ELSE IF upToLevel < 0
    THEN [raised |-> TRUE, value |-> << >>]
    ELSE LET cs == children(h, self)
             new == IF upToLevel = 0 \/ Len(cs) = 0 THEN << >>
                    ELSE [i \in 1..Len(cs) |->
                            names(h, cs[i], includeChildren, upToLevel - 1, flatten).value]
         IN IF flatten
            THEN [raised |-> FALSE,
                  value |-> [list |-> h.fieldNames[self],
                             rest |-> UNION {{new[i].list[k] : k \in 1..Len(new[i].list)}
                                                \cup new[i].rest : i \in 1..Len(new)}]]
            ELSE [raised |-> FALSE, value |-> <<h.fieldNames[self], new>>]

(* commonNames: the loop over the children of one level.  cs is the list   *)
(* of the nodes of the level, i the position of the loop; the result says  *)
(* whether the loop has returned from commonNames.                         *)
RECURSIVE commonNamesLevel(_, _, _, _, _, _)
commonNamesLevel(h, cs, i, newCommonNames, hasChildren, newChildrenList) ==
    IF i > Len(cs)
    THEN [returned |-> FALSE, newCommonNames |-> newCommonNames,
          hasChildren |-> hasChildren, newChildrenList |-> newChildrenList]
    ELSE LET newNames == names(h, cs[i], FALSE, -1, TRUE).value
             common == SelectSeq(newCommonNames, LAMBDA name : InList(newNames, name))
             newChildren == children(h, cs[i])
             has == hasChildren /\ Len(newChildren) > 0
         IN IF Len(common) = 0
            THEN [returned |-> TRUE, newCommonNames |-> common,
                  hasChildren |-> hasChildren, newChildrenList |-> newChildrenList]
            ELSE commonNamesLevel(h, cs, i + 1, common, has,
                    IF has THEN newChildrenList \o newChildren ELSE newChildrenList)

(* commonNames: the while loop; level counts the levels that were added.   *)
(* A hierarchy without a cycle has less than MaxNodes levels below a node: *)
(* the loop is cut (cut |-> TRUE) after MaxNodes levels.                   *)
RECURSIVE commonNamesLoop(_, _, _, _)
commonNamesLoop(h, commonNames_, cs, level) ==
    IF level > MaxNodes THEN [cut |-> TRUE, value |-> commonNames_]
    ELSE Bind(commonNamesLevel(h, cs, 1, names(h, cs[1], FALSE, -1, TRUE).value, TRUE, << >>),
              LAMBDA l :
                 IF l.returned THEN [cut |-> FALSE, value |-> Append(commonNames_, << >>)]
                 ELSE IF l.hasChildren
                 THEN commonNamesLoop(h, Append(commonNames_, l.newCommonNames),
                                      l.newChildrenList, level + 1)
                 ELSE [cut |-> FALSE, value |-> Append(commonNames_, l.newCommonNames)])

commonNames(h, self) ==
    IF Len(children(h, self)) > 0
    THEN commonNamesLoop(h, <<names(h, self, FALSE, -1, TRUE).value>>, children(h, self), 1)
    ELSE [cut |-> FALSE, value |-> <<names(h, self, FALSE, -1, TRUE).value>>]

(* A variant of addChild that does not remove the child from the children  *)
(* of its previous parent.                                                 *)
addChildNoDetach(h, self, childCube, row) ==
    IF childCube = self THEN raise(h)
    ELSE IF InList(children(h, self), childCube) THEN raise(h)
    ELSE [notifyTree([setParent(h, childCube, self) EXCEPT
                !.children[self] = Append(@, ChildItem(childCube,
                    [row |-> IF row = None THEN h.index[self] ELSE row[1]]))],
                <<self, "addChild", childCube>>)
             EXCEPT !.unsaved[self] = TRUE]

(* A variant of addChild that does not test whether the datacube is        *)
(* already a child.                                                        *)
addChildNoDuplicateTest(h, self, childCube, row) ==
    IF childCube = self THEN raise(h)
    ELSE Bind(IF h.parent[childCube] # NoParent
              THEN removeChild(h, h.parent[childCube], childCube, FALSE)
              ELSE h,
              LAMBDA h1 :
                 [notifyTree([setParent(h1, childCube, self) EXCEPT
                        !.children[self] = Append(@, ChildItem(childCube,
                            [row |-> IF row = None THEN h.index[self] ELSE row[1]]))],
                        <<self, "addChild", childCube>>)
                     EXCEPT !.unsaved[self] = TRUE])

(* A variant of addChild that refuses a datacube from which the node is    *)
(* reached.                                                                *)
addChildNoAncestor(h, self, childCube, row) ==
    IF childCube = self \/ self \in Descendants(h, childCube) THEN raise(h)
    ELSE IF InList(children(h, self), childCube) THEN raise(h)
    ELSE Bind(IF h.parent[childCube] # NoParent
              THEN removeChild(h, h.parent[childCube], childCube, FALSE)
              ELSE h,
              LAMBDA h1 :
                 [notifyTree([setParent(h1, childCube, self) EXCEPT
                        !.children[self] = Append(@, ChildItem(childCube,
                            [row |-> IF row = None THEN h.index[self] ELSE row[1]]))],
                        <<self, "addChild", childCube>>)
                     EXCEPT !.unsaved[self] = TRUE])

(* A variant of addChild whose default row attribute is the cursor of the  *)
(* child.                                                                  *)
addChildRowOfChild(h, self, childCube, row) ==
    IF childCube = self THEN raise(h)
    ELSE IF InList(children(h, self), childCube) THEN raise(h)
    ELSE Bind(IF h.parent[childCube] # NoParent
              THEN removeChild(h, h.parent[childCube], childCube, FALSE)
              ELSE h,
              LAMBDA h1 :
                 [notifyTree([setParent(h1, childCube, self) EXCEPT
                        !.children[self] = Append(@, ChildItem(childCube,
                            [row |-> IF row = None THEN h.index[childCube] ELSE row[1]]))],
                        <<self, "addChild", childCube>>)
                     EXCEPT !.unsaved[self] = TRUE])

(* addChild: row is the optional attribute row of the keyword arguments.   *)
addChild(h, self, childCube, row) ==
    IF childCube = self THEN raise(h)
    ELSE IF InList(children(h, self), childCube) THEN raise(h)
    ELSE LET attributes == [row |-> IF row = None THEN h.index[self] ELSE row[1]]
         IN Bind(IF h.parent[childCube] # NoParent
                 THEN removeChild(h, h.parent[childCube], childCube, FALSE)
                 ELSE h,
                 LAMBDA h1 :
                    IF h1.raised THEN h1
                    ELSE [notifyTree([setParent(h1, childCube, self) EXCEPT
                                !.children[self] = Append(@, ChildItem(childCube, attributes))],
                                <<self, "addChild", childCube>>)
                             EXCEPT !.unsaved[self] = TRUE])

-----------------------------------------------------------------------------
(* The state machine: one action per public call.  A call that raises     *)
(* leaves the object as it was when the exception left the method.         *)

(* The callers that share the node: each calls set() with its value of the *)
(* column a at the default row and then commit() with the default          *)
(* arguments; pc is the call each of them makes next.                      *)
Writers == {1, 2}

WriterValue(w) == w + 1

InitWriters == pc = [w \in Writers |-> "set"]

InitTree ==
    /\ _children = [n \in Nodes |-> << >>]
    /\ _parent = [n \in Nodes |-> NoParent]
    /\ childFieldNames = [n \in Nodes \ {1} |-> initialize.fieldNames]

Init ==
    /\ fieldNames = initialize.fieldNames
    /\ fieldMap = initialize.fieldMap
    /\ table = initialize.table
    /\ length = initialize.length
    /\ index = initialize.index
    /\ unsaved = initialize.unsaved
    /\ InitTree
    /\ InitWriters

Returns(s) ==
    /\ fieldNames' = s.fieldNames
    /\ fieldMap' = s.fieldMap
    /\ table' = s.table
    /\ length' = s.length
    /\ index' = s.index
    /\ unsaved' = s.unsaved
    /\ UNCHANGED <<_children, _parent, pc, childFieldNames>>

ReturnsTree(h) ==
    /\ _children' = h.children
    /\ _parent' = h.parent
    /\ unsaved' = h.unsaved[1]
    /\ UNCHANGED <<fieldNames, fieldMap, table, length, index, pc, childFieldNames>>

AddChild(self, childCube, row) ==
    \E h \in {addChild(Tree, self, childCube, row)} : ReturnsTree(h)

RemoveChild(self, childCube, deleteChildCube) ==
    \E h \in {removeChild(Tree, self, childCube, deleteChildCube)} : ReturnsTree(h)

SetChildAttributes(self, childCube, key, value) ==
    \E h \in {setChildAttributes(Tree, self, childCube, key, value)} : ReturnsTree(h)

GoTo(row) == \E s \in {goTo(Self, row)} : Returns(s)

Set(rowIndex, keys, commitArg, extendLength) ==
    \E s \in {set(Self, rowIndex, FALSE, commitArg, << >>, extendLength, keys)} : Returns(s)

Commit(rowIndex, gotoNextRow) ==
    \E s \in {commit(Self, rowIndex, gotoNextRow)} : Returns(s)

AddRow == \E s \in {addRow(Self, FALSE)} : Returns(s)

InsertRow(rowIndex, before, commitArg, keys) ==
    \E s \in {insertRow(Self, rowIndex, before, FALSE, commitArg, keys)} : Returns(s)

RemoveRow(row) == \E s \in {removeRow(Self, row, FALSE)} : Returns(s)

RemoveRows(rows) == \E s \in {removeRows(Self, rows, FALSE)} : Returns(s)

ClearRow == \E s \in {clearRow(Self)} : Returns(s)

SortBy(columnArg, reverse) == \E s \in {sortBy(Self, columnArg, reverse)} : Returns(s)

CreateCol(name, colIndexArg, values) ==
    \E s \in {createCol(Self, name, colIndexArg, 0, values, TRUE)} : Returns(s)

RenameColumn(oldName, newName) ==
    \E s \in {renameColumn(Self, oldName, newName)} : Returns(s)

RemoveColumns(namesOrIndices) ==
    \E s \in {removeColumns(Self, namesOrIndices, TRUE)} : Returns(s)

SaveToHdf5Object == \E s \in {saveToHdf5Object(Self)} : Returns(s)

(* The calls of the writers: the fields of the node are those the call     *)
(* returns with, and the writer goes to its next call.                     *)
ReturnsTo(s, w, next) ==
    /\ fieldNames' = s.fieldNames
    /\ fieldMap' = s.fieldMap
    /\ table' = s.table
    /\ length' = s.length
    /\ index' = s.index
    /\ unsaved' = s.unsaved
    /\ pc' = [pc EXCEPT ![w] = next]
    /\ UNCHANGED <<_children, _parent, childFieldNames>>

WriterSet(w) ==
    /\ pc[w] = "set"
    /\ \E s \in {set(Self, None, FALSE, FALSE, << >>, FALSE, << <<"a", WriterValue(w)>> >>)} :
            ReturnsTo(s, w, "commit")

WriterCommit(w) ==
    /\ pc[w] = "commit"
    /\ \E s \in {commit(Self, None, TRUE)} : ReturnsTo(s, w, "done")

(* createCol(name) on a node other than node 1: the node is as the         *)
(* createCol calls that gave it its columns have left it.                  *)
RECURSIVE ChildSelf(_)
ChildSelf(fN) ==
    IF Len(fN) = 0 THEN initialize
    ELSE createCol(ChildSelf(SubSeq(fN, 1, Len(fN) - 1)), fN[Len(fN)], None, 0, None, TRUE)

ChildCreateCol(n, name) ==
    /\ \E s \in {createCol(ChildSelf(childFieldNames[n]), name, None, 0, None, TRUE)} :
            childFieldNames' = [childFieldNames EXCEPT ![n] = s.fieldNames]
    /\ UNCHANGED <<fieldNames, fieldMap, table, length, index, unsaved, _children, _parent, pc>>

-----------------------------------------------------------------------------
(* The part of the state space that is explored: the cursor, the length,   *)
(* the number of columns and the rows that hold data stay in a window.     *)
IsZeroRow(row) == \A c \in 1..Len(row) : row[c] = 0

Window(maxRow, maxCols) ==
    /\ index <= maxRow + 2
    /\ length <= maxRow + 1
    /\ Len(fieldNames) <= maxCols
    /\ Len(table) > maxRow + 2 => IsZeroRow(table[maxRow + 3])

Optional(S) == {None} \cup {Some(x) : x \in S}

(* Specification of the row protocol, on a node with the column "a" *)

RowKeys == {<< <<"a", v>> >> : v \in Values}

RowWindow == Window(MaxRow, 1)

Next ==
    \/ \E row \in (-1)..(MaxRow + 1) : GoTo(row) /\ RowWindow'
    \/ \E rowIndex \in Optional((-2)..MaxRow), keys \in RowKeys, c, e \in BOOLEAN :
            /\ setRow(Self, rowIndex) <= MaxRow + 1
            /\ Set(rowIndex, keys, c, e)
            /\ RowWindow'
    \/ \E rowIndex \in Optional(0..MaxRow), g \in BOOLEAN :
            Commit(rowIndex, g) /\ RowWindow'
    \/ AddRow /\ RowWindow'
    \/ \E rowIndex \in Optional(0..MaxRow), b, c \in BOOLEAN, keys \in RowKeys \cup {<< >>} :
            /\ insertIndex(Self, rowIndex, b) <= MaxRow + 1
            /\ InsertRow(rowIndex, b, c, keys)
            /\ RowWindow'
    \/ \E row \in 0..MaxRow : RemoveRow(row) /\ RowWindow'
    \/ \E r1, r2 \in 0..MaxRow : r1 # r2 /\ RemoveRows(<<r1, r2>>) /\ RowWindow'
    \/ ClearRow /\ RowWindow'
    \/ \E r \in BOOLEAN : SortBy("a", r) /\ RowWindow'

Spec == Init /\ [][Next]_vars

(* Specification of the column protocol: columns are created by createCol  *)
(* and by set, and removed by removeColumns.                               *)

ColKeys ==
    {<< <<n, v>> >> : n \in ColNames, v \in Values}
    \cup {k \in {<< <<n, v>>, <<m, v>> >> : n \in ColNames, m \in ColNames, v \in Values} :
            k[1][1] # k[2][1]}

ColEntries ==
    {<<"name", n>> : n \in ColNames \cup {AutoName(1)}}
    \cup {<<"index", i>> : i \in 0..(MaxCols - 1)}

ColWindow == Window(ColRows, MaxCols)

NextCols ==
    \/ \E name \in ColNames \cup {NoName}, colIndexArg \in Optional({0}),
          values \in Optional({<<v>> : v \in Values}) :
            CreateCol(name, colIndexArg, values) /\ ColWindow'
    \/ \E e1 \in ColEntries : RemoveColumns(<<e1>>) /\ ColWindow'
    \/ \E n \in ColNames, i \in 0..(MaxCols - 1) :
            RemoveColumns(<< <<"name", n>>, <<"index", i>> >>) /\ ColWindow'
    \/ \E keys \in ColKeys, c \in BOOLEAN :
            /\ setRow(Self, None) <= ColRows + 1
            /\ Set(None, keys, c, FALSE)
            /\ ColWindow'
    \/ \E g \in BOOLEAN : Commit(None, g) /\ ColWindow'

SpecCols == Init /\ [][NextCols]_vars

(* The column protocol with renameColumn *)

NextRename ==
    \/ NextCols
    \/ \E oldName \in ColNames, newName \in ColNames \cup {NoName} :
            RenameColumn(oldName, newName) /\ ColWindow'

SpecRename == Init /\ [][NextRename]_vars

(* Specification of the automatic column names: the node has the columns  *)
(* New_1 .. New_k, as k calls of createCol() without a name leave it, and  *)
(* columns are created without a name and removed.                         *)

NewNames(k) == [i \in 1..k |-> AutoName(i)]

NameCounts == (0..MaxNames) \cup ((MaxAutoNames - 2)..MaxAutoNames)

InitNames ==
    \E k \in NameCounts :
        /\ fieldNames = NewNames(k)
        /\ fieldMap = FieldMapOf(NewNames(k))
        /\ table = IF k = 0 THEN initialize.table ELSE ZeroRows(1, k)
        /\ length = initialize.length
        /\ index = initialize.index
        /\ unsaved = initialize.unsaved
        /\ InitTree
        /\ InitWriters

NextNames ==
    \/ /\ CreateCol(NoName, None, None)
       /\ Len(fieldNames') <= MaxNames + 1 \/ Len(fieldNames') >= MaxAutoNames - 2
       /\ Len(fieldNames') <= MaxAutoNames + 1
    \/ RemoveColumns(<< <<"name", AutoName(1)>> >>)

SpecNames == InitNames /\ [][NextNames]_vars

(* Specification of the hierarchy: nodes are attached, with and without a  *)
(* row attribute, and removed.                                             *)

NextTree ==
    \/ \E self \in Nodes, childCube \in Nodes, row \in Optional({1}) :
            AddChild(self, childCube, row)
    \/ \E self \in Nodes, childCube \in Nodes, deleteChildCube \in BOOLEAN :
            RemoveChild(self, childCube, deleteChildCube)

SpecTree == Init /\ [][NextTree]_vars

(* Specification of the attachment of children at a cursor: the node moves *)
(* its cursor over the rows it adds, and children are attached to it, with *)
(* and without a row attribute, and removed.                               *)

MaxChildren == 2

NextAttach ==
    \/ \E row \in 0..(MaxRow + 1) : GoTo(row)
    \/ AddRow /\ Window(MaxRow, 0)'
    \/ \E childCube \in Nodes, row \in Optional({1}) :
            AddChild(1, childCube, row) /\ Len(_children'[1]) <= MaxChildren
    \/ \E childCube \in Nodes : RemoveChild(1, childCube, FALSE)
    \/ \E childCube \in Nodes, key \in {"row", "tag"}, value \in 0..MaxRow :
            SetChildAttributes(1, childCube, key, value)

SpecAttach == Init /\ [][NextAttach]_vars

(* Specification of the rows under attached children: the node validates   *)
(* rows with commit() and removes rows, and children are attached to it at *)
(* its cursor and removed.                                                 *)

NextAnchor ==
    \/ \E g \in BOOLEAN : Commit(None, g) /\ Window(MaxRow, 0)'
    \/ \E row \in 0..MaxRow : RemoveRow(row)
    \/ \E r1, r2 \in 0..MaxRow : r1 # r2 /\ RemoveRows(<<r1, r2>>)
    \/ \E childCube \in Nodes :
            AddChild(1, childCube, None) /\ Len(_children'[1]) <= MaxChildren
    \/ \E childCube \in Nodes : RemoveChild(1, childCube, FALSE)

SpecAnchor == Init /\ [][NextAnchor]_vars

(* Specification of the row protocol on a node that is saved at any time   *)

NextSave ==
    \/ Next
    \/ SaveToHdf5Object

SpecSave == Init /\ [][NextSave]_vars

(* Specification of the search: the node has the columns a and b, the     *)
(* values of a are so large that two of them are within the tolerance of   *)
(* allclose, and rows are written at the cursor, committed or not.         *)

SearchRows == 1

SearchValues == {100000, 100001}

SearchKeys ==
    {<< <<"a", v>> >> : v \in SearchValues}
        \cup {<< <<"a", v>>, <<"b", 1>> >> : v \in SearchValues}

NextSearch ==
    \/ \E row \in 0..(SearchRows + 1) : GoTo(row)
    \/ \E keys \in SearchKeys, c \in BOOLEAN :
            /\ setRow(Self, None) <= SearchRows + 1
            /\ Set(None, keys, c, FALSE)
            /\ Window(SearchRows, MaxCols)'
    \/ \E g \in BOOLEAN : Commit(None, g) /\ Window(SearchRows, MaxCols)'

SpecSearch == Init /\ [][NextSearch]_vars

(* Specification of the sort: the node of the search, sorted by a or by b, *)
(* in either direction.                                                    *)

NextSort ==
    \/ NextSearch
    \/ \E columnArg \in {"a", "b"}, reverse \in BOOLEAN :
            SortBy(columnArg, reverse) /\ Window(SearchRows, MaxCols)'

SpecSort == Init /\ [][NextSort]_vars

(* Specification of two writers on one node: before the writers start,     *)
(* rows are written and committed and the cursor is moved; then each       *)
(* writer makes its two calls, in any interleaving.                        *)

NotStarted == \A w \in Writers : pc[w] = "set"

NextRace ==
    \/ /\ NotStarted
       /\ \E row \in 0..MaxRow : GoTo(row)
    \/ /\ NotStarted
       /\ \E keys \in RowKeys, c \in BOOLEAN :
            /\ setRow(Self, None) <= MaxRow
            /\ Set(None, keys, c, FALSE)
            /\ RowWindow'
    \/ \E w \in Writers : WriterSet(w)
    \/ \E w \in Writers : WriterCommit(w)

SpecRace == Init /\ [][NextRace]_vars

(* Specification of the column names in a hierarchy: columns are created   *)
(* on every node, and a node is attached to a node that was constructed    *)
(* before it, so that the hierarchy has no cycle.                          *)

NextFamily ==
    \/ \E name \in ColNames : CreateCol(name, None, None) /\ ColWindow'
    \/ \E n \in Nodes \ {1}, name \in ColNames : ChildCreateCol(n, name)
    \/ \E self \in Nodes, childCube \in Nodes :
            self < childCube /\ AddChild(self, childCube, None)

SpecFamily == Init /\ [][NextFamily]_vars

(* Specification of the buffer: the calls that change the rows and the     *)
(* calls that change the columns, on one node.                             *)

BufferRows == 1

BufferWindow == Window(BufferRows, MaxCols)

NextBuffer ==
    \/ \E rowIndex \in Optional(0..BufferRows), keys \in RowKeys, c, e \in BOOLEAN :
            /\ setRow(Self, rowIndex) <= BufferRows + 1
            /\ Set(rowIndex, keys, c, e)
            /\ BufferWindow'
    \/ \E rowIndex \in Optional(0..BufferRows), g \in BOOLEAN :
            Commit(rowIndex, g) /\ BufferWindow'
    \/ AddRow /\ BufferWindow'
    \/ \E b, c \in BOOLEAN, keys \in RowKeys \cup {<< >>} :
            /\ insertIndex(Self, None, b) <= BufferRows + 1
            /\ InsertRow(None, b, c, keys)
            /\ BufferWindow'
    \/ \E row \in 0..BufferRows : RemoveRow(row) /\ BufferWindow'
    \/ \E columnArg \in ColNames, r \in BOOLEAN : SortBy(columnArg, r) /\ BufferWindow'
    \/ \E name \in ColNames, values \in Optional({<<v>> : v \in Values}) :
            CreateCol(name, None, values) /\ BufferWindow'
    \/ \E name \in ColNames : RemoveColumns(<< <<"name", name>> >>) /\ BufferWindow'

SpecBuffer == Init /\ [][NextBuffer]_vars

(* Specification of a run of appends: a caller writes the row at the       *)
(* cursor with set() and validates it with commit(), which moves the       *)
(* cursor to the next row, MaxAppend + 1 times.                            *)

MaxAppend == 503

RowIsStaged == index < Len(table) /\ ~IsZeroRow(table[index + 1])

NextAppend ==
    \/ /\ ~RowIsStaged
       /\ index <= MaxAppend
       /\ \E keys \in RowKeys : Set(None, keys, FALSE, FALSE)
    \/ /\ RowIsStaged
       /\ Commit(None, TRUE)

SpecAppend == Init /\ [][NextAppend]_vars

-----------------------------------------------------------------------------
(* Properties of the row protocol (specification Spec).  A property of a   *)
(* method is stated on the result of the method in every reachable state.  *)

CommitRows == Optional(0..(MaxRow + 1))

(* C1: every commit(rowIndex, gotoNextRow) returns with length >=          *)
(* rowIndex + 1 (rowIndex being the cursor when not given), with the       *)
(* cursor at rowIndex + 1 when gotoNextRow is set, and with a length that  *)
(* is not smaller than before the call.                                    *)
CommitPostcondition ==
    \A rowIndex \in CommitRows, gotoNextRow \in BOOLEAN :
        \A r \in {commit(Self, rowIndex, gotoNextRow)} :
            /\ ~r.raised
            /\ r.length >= commitRow(Self, rowIndex) + 1
            /\ gotoNextRow => r.index = commitRow(Self, rowIndex) + 1
            /\ ~gotoNextRow => r.index = index
            /\ r.length >= length

(* A node with committed rows on which a commit beyond the length extends  *)
(* the length and moves the cursor, and a commit of a committed row keeps  *)
(* the length.                                                             *)
CommitExtendsLength ==
    /\ length >= 1
    /\ LET r == commit(Self, Some(length + 1), TRUE)
       IN ~r.raised /\ r.length = length + 2 /\ r.index = length + 2
    /\ LET r == commit(Self, Some(0), TRUE)
       IN ~r.raised /\ r.length = length /\ r.index = 1

Fresh ==
    /\ fieldNames = initialize.fieldNames
    /\ fieldMap = initialize.fieldMap
    /\ table = initialize.table
    /\ length = initialize.length

(* C2: a set at a row index >= length leaves table() as it was (its rows   *)
(* keep their values, a column that set creates holds 0 in them), and      *)
(* after the commit of that row table() ends with the row that holds the   *)
(* values written; on a fresh node table() is then the rows of zeros up to *)
(* that row, and that row.                                                 *)
SetThenCommitVisibility ==
    \A rowIndex \in length..(MaxRow + 1), keys \in ColKeys :
        \A r \in {set(Self, Some(rowIndex), FALSE, FALSE, << >>, FALSE, keys)} :
            /\ ~r.raised
            /\ Len(table_(r)) = length
            /\ \A j \in 1..length, f \in DOMAIN r.fieldMap :
                    table_(r)[j][r.fieldMap[f] + 1] =
                        IF f \in DOMAIN fieldMap THEN table[j][fieldMap[f] + 1] ELSE 0
            /\ \A g \in BOOLEAN :
                    \A c \in {commit(r, Some(rowIndex), g)} :
                        /\ ~c.raised
                        /\ Len(table_(c)) = rowIndex + 1
                        /\ \A k \in 1..Len(keys) :
                                table_(c)[rowIndex + 1][c.fieldMap[keys[k][1]] + 1] = keys[k][2]
                        /\ \A j \in 1..length : table_(c)[j] = table_(r)[j]
                        /\ Fresh => table_(c) = ZeroRows(rowIndex, Len(keys))
                                                \o <<[k \in 1..Len(keys) |-> keys[k][2]]>>

(* The node that set(rowIndex=1, a=1) and commit(rowIndex=1) make of a     *)
(* fresh node: two rows, the second one holding the value written.         *)
SetThenCommitOnFresh ==
    LET r == commit(set(initialize, Some(1), FALSE, FALSE, << >>, FALSE, << <<"a", 1>> >>),
                    Some(1), TRUE)
    IN /\ fieldNames = r.fieldNames
       /\ fieldMap = r.fieldMap
       /\ table = r.table
       /\ length = r.length
       /\ index = r.index
       /\ table_(Self) = << <<0>>, <<1>> >>

(* C3: the cursor is in [0, length].                                       *)
CursorInRange == 0 <= index /\ index <= length

(* C6: insertRow at an insertion point i < length keeps every row of       *)
(* table(): the rows below i at their index, the rows at and after i one   *)
(* index further.                                                          *)
InsertRowKeepsRows ==
    \A i \in 0..(length - 1), commitArg \in BOOLEAN, keys \in RowKeys \cup {<< >>} :
        \A r \in {insertRow(Self, Some(i), TRUE, FALSE, commitArg, keys)} :
            ~r.raised =>
                /\ \A j \in 0..(i - 1) :
                        Len(table_(r)) >= j + 1 /\ table_(r)[j + 1] = table[j + 1]
                /\ \A j \in i..(length - 1) :
                        Len(table_(r)) >= j + 2 /\ table_(r)[j + 2] = table[j + 1]

SetRows == Optional((-(MaxRow + 2))..(MaxRow + 1))

(* C7: set without commit and without extendLength changes neither the     *)
(* length nor the cursor, whatever the row and the fields, also when it    *)
(* creates columns or enlarges the buffer.                                 *)
SetKeepsLengthAndCursor ==
    \A rowIndex \in SetRows, keys \in ColKeys \cup {<< >>} :
        \A r \in {set(Self, rowIndex, FALSE, FALSE, << >>, FALSE, keys)} :
            ~r.raised /\ r.length = length /\ r.index = index

(* A node with committed rows on which a set at the cursor creates a       *)
(* column and enlarges the buffer, and changes neither length nor cursor.  *)
SetCreatesColumnAndEnlarges ==
    /\ length >= 1
    /\ index >= Len(table)
    /\ LET r == set(Self, None, FALSE, FALSE, << >>, FALSE, << <<"b", 1>> >>)
       IN /\ ~r.raised
          /\ Len(r.fieldNames) > Len(fieldNames)
          /\ Len(r.table) > Len(table)
          /\ r.table[index + 1][r.fieldMap["b"] + 1] = 1
          /\ r.length = length
          /\ r.index = index

(* C8: set with a negative rowIndex r on a node of length L writes at row  *)
(* L + r + 1, and at row 0 when L + r + 1 is negative.                     *)
SetNegativeRowIndex ==
    \A rowIndex \in (-(MaxRow + 2))..(-1), keys \in RowKeys :
        \A r \in {set(Self, Some(rowIndex), FALSE, FALSE, << >>, FALSE, keys)} :
            ~r.raised =>
                r.table[Max(length + rowIndex + 1, 0) + 1][r.fieldMap[keys[1][1]] + 1]
                    = keys[1][2]

(* C9: removeRow(at) with 0 <= at < length decrements the length, leaves   *)
(* the rows below at unchanged, moves every committed row j > at to        *)
(* j - 1, and decrements the cursor exactly when cursor >= at.             *)
RemoveRowPostcondition ==
    \A at \in 0..(length - 1) :
        \A r \in {removeRow(Self, at, FALSE)} :
            /\ ~r.raised
            /\ r.length = length - 1
            /\ \A j \in 0..(at - 1) : r.table[j + 1] = table[j + 1]
            /\ \A j \in (at + 1)..(length - 1) : r.table[j] = table[j + 1]
            /\ r.index = IF index >= at THEN index - 1 ELSE index

(* A node whose first two committed rows differ, with the cursor on the    *)
(* first: removeRow(0) brings the second row to index 0 and decrements     *)
(* the cursor; removeRow(1) keeps the first row and the cursor.            *)
RemoveRowShifts ==
    /\ length >= 3
    /\ index = 0
    /\ table[1] # table[2]
    /\ LET r == removeRow(Self, 0, FALSE)
       IN r.length = length - 1 /\ r.table[1] = table[2] /\ r.table[2] = table[3]
          /\ r.index = -1
    /\ LET r == removeRow(Self, 1, FALSE)
       IN r.length = length - 1 /\ r.table[1] = table[1] /\ r.table[2] = table[3]
          /\ r.index = 0

(* The lists of distinct row indices, in every order.                      *)
RowLists ==
    {rows \in UNION {[1..n -> 0..MaxRow] : n \in 0..(MaxRow + 1)} :
        \A i, j \in 1..Len(rows) : rows[i] = rows[j] => i = j}

(* rows without those whose index is in S, in the same order               *)
DeleteRows(rows, S) ==
    LET keep == {j \in 1..Len(rows) : (j - 1) \notin S}
    IN [k \in 1..Cardinality(keep) |->
            rows[CHOOSE j \in keep : Cardinality({i \in keep : i < j}) = k - 1]]

(* C10: removeRows(S), for committed row indices given in any order,       *)
(* leaves table() equal to the previous one without the rows of S, the     *)
(* others in the same order, and decreases the length by |S|.              *)
RemoveRowsPostcondition ==
    \A rows \in RowLists :
        (\A i \in 1..Len(rows) : rows[i] < length) =>
            \A r \in {removeRows(Self, rows, FALSE)} :
                /\ ~r.raised
                /\ r.length = length - Len(rows)
                /\ table_(r) = DeleteRows(table_(Self), {rows[i] : i \in 1..Len(rows)})

(* A node with three committed rows, the first two different, from which   *)
(* removeRows([0, 2]) and removeRows([2, 0]) both keep the middle row.     *)
RemoveRowsAnyOrder ==
    /\ length = 3
    /\ table[1] # table[2]
    /\ table_(removeRows(Self, <<0, 2>>, FALSE)) = <<table[2]>>
    /\ table_(removeRows(Self, <<2, 0>>, FALSE)) = <<table[2]>>
    /\ table_(removeRows(Self, <<0, 1>>, FALSE)) = <<table[3]>>

(* C16: goTo(r) sets the cursor to r when 0 <= r <= length, and changes    *)
(* nothing for any other r.                                                *)
GoToRejectsOutOfRange ==
    \A row \in (-2)..(MaxRow + 2) :
        \A r \in {goTo(Self, row)} :
            IF 0 <= row /\ row <= length
            THEN r = [Self EXCEPT !.index = row]
            ELSE r = Self

-----------------------------------------------------------------------------
(* Properties of the column protocol (specifications SpecCols, SpecRename) *)

(* C4: the field map is the exact inverse of the field list:               *)
(* fieldMap[fieldNames[i]] = i for every i, and the map has no other key.  *)
FieldMapIsInverse ==
    /\ DOMAIN fieldMap = {fieldNames[i] : i \in 1..Len(fieldNames)}
    /\ \A i \in 1..Len(fieldNames) : fieldMap[fieldNames[i]] = i - 1

(* A node whose only column is New_2: New_1 and New_2 were created, and    *)
(* New_1 removed; the map has the one key New_2, at index 0.               *)
FieldMapAfterRemoval ==
    /\ fieldNames = <<AutoName(2)>>
    /\ DOMAIN fieldMap = {AutoName(2)}
    /\ fieldMap[AutoName(2)] = 0

(* C5: the field list holds no column name twice.                          *)
NoDuplicateNames ==
    \A i, j \in 1..Len(fieldNames) : fieldNames[i] = fieldNames[j] => i = j

(* The field lists without duplicates over the names of the model and one  *)
(* more, of at most MaxCols + 1 names.                                     *)
FieldLists ==
    {fN \in UNION {[1..n -> ColNames \cup {AutoName(1), "c"}] : n \in 0..(MaxCols + 1)} :
        \A i, j \in 1..Len(fN) : fN[i] = fN[j] => i = j}

(* C11: the rebuild of the table after the field list changed keeps, for   *)
(* every name that was a column before and still is one, the whole column  *)
(* (all the rows of the buffer, committed and staged) at the new index of  *)
(* the name, and a column whose name is new holds 0 in every row.          *)
RebuildKeepsColumns ==
    \A fN \in FieldLists :
        \A r \in {_adjustTable([Self EXCEPT !.fieldNames = fN], None, FALSE, 0)} :
            /\ ~r.raised
            /\ r.fieldNames = fN
            /\ Len(r.table) >= Len(table)
            /\ \A i \in 1..Len(fN), j \in 1..Len(r.table) :
                    /\ Len(r.table[j]) = Len(fN)
                    /\ r.table[j][i] =
                          IF fN[i] \in DOMAIN fieldMap /\ j <= Len(table)
                          THEN table[j][fieldMap[fN[i]] + 1] ELSE 0

(* A node with the columns a and b that differ in the committed row 0 and  *)
(* in a staged row: the rebuild for the field list <<c, b, a>> moves both   *)
(* columns and zero-fills c; the rebuild for <<b>> keeps column b.          *)
RebuildMovesColumns ==
    /\ fieldNames = <<"a", "b">>
    /\ length = 1
    /\ Len(table) >= 2
    /\ table[1] = <<1, 0>>
    /\ table[2] = <<0, 1>>
    /\ LET r == _adjustTable([Self EXCEPT !.fieldNames = <<"c", "b", "a">>], None, FALSE, 0)
       IN r.table[1] = <<0, 0, 1>> /\ r.table[2] = <<0, 1, 0>>
    /\ LET r == _adjustTable([Self EXCEPT !.fieldNames = <<"b">>], None, FALSE, 0)
       IN r.table[1] = <<0>> /\ r.table[2] = <<1>>

(* C12: removeColumns([name]) followed by the creation of a column of the  *)
(* same name, at any index, gives a column that is 0 in every committed    *)
(* row, and leaves the length and the values of the other columns.         *)
ReAddedColumnIsZero ==
    \A i \in 1..Len(fieldNames), colIndexArg \in Optional((-1)..MaxCols) :
        \A r1 \in {removeColumns(Self, << <<"name", fieldNames[i]>> >>, TRUE)} :
            \A r2 \in {createCol(r1, fieldNames[i], colIndexArg, 0, None, TRUE)} :
                /\ ~r1.raised /\ ~r2.raised
                /\ ~InList(r1.fieldNames, fieldNames[i])
                /\ r1.length = length
                /\ r2.length = length
                /\ DOMAIN r2.fieldMap = DOMAIN fieldMap
                /\ \A j \in 1..length, f \in DOMAIN fieldMap :
                        r2.table[j][r2.fieldMap[f] + 1] =
                            IF f = fieldNames[i] THEN 0 ELSE table[j][fieldMap[f] + 1]

(* A node with the columns a and b and a committed row in which a is 1 and *)
(* b is 0: after removeColumns(["a"]) and createCol("a") the row holds 0   *)
(* in both; after removeColumns(["b"]) and createCol("b", 0) a is still 1. *)
ReAddedColumnLosesData ==
    /\ fieldNames = <<"a", "b">>
    /\ length >= 1
    /\ table[1] = <<1, 0>>
    /\ LET r == createCol(removeColumns(Self, << <<"name", "a">> >>, TRUE),
                          "a", None, 0, None, TRUE)
       IN r.fieldNames = <<"b", "a">> /\ r.table[1] = <<0, 0>> /\ r.length = length
    /\ LET r == createCol(removeColumns(Self, << <<"name", "b">> >>, TRUE),
                          "b", Some(0), 0, None, TRUE)
       IN r.fieldNames = <<"b", "a">> /\ r.table[1] = <<0, 1>> /\ r.length = length

ColumnValues == {<<v>> : v \in Values} \cup {<<v, w>> : v \in Values, w \in Values}

(* C13 as stated: no column edit changes the length: createCol (with or    *)
(* without values), renameColumn and removeColumns return with the length  *)
(* they were called with.                                                  *)
ColumnEditsKeepLength ==
    /\ \A name \in ColNames \cup {NoName}, colIndexArg \in Optional({0}),
          offsetRowArg \in (-1)..1, values \in Optional(ColumnValues) :
            createCol(Self, name, colIndexArg, offsetRowArg, values, TRUE).length = length
    /\ \A oldName \in ColNames, newName \in ColNames \cup {NoName} :
            renameColumn(Self, oldName, newName).length = length
    /\ \A e1 \in ColEntries :
            removeColumns(Self, <<e1>>, TRUE).length = length

(* The row createCol writes its first value at.                            *)
CreateColOffset(offsetRowArg) ==
    Max(IF offsetRowArg < 0 THEN length + offsetRowArg + 1 ELSE offsetRowArg, 0)

(* C13, amended: createCol without values, renameColumn and removeColumns  *)
(* leave the length; createCol with values written from row offsetRow on   *)
(* makes the length max(length, offsetRow + len(values)), and so never     *)
(* decreases it.                                                           *)
ColumnEditsKeepLengthUnlessValues ==
    /\ \A name \in ColNames \cup {NoName}, colIndexArg \in Optional({0}),
          offsetRowArg \in (-1)..1, values \in Optional(ColumnValues) :
            createCol(Self, name, colIndexArg, offsetRowArg, values, TRUE).length =
                IF values = None THEN length
                ELSE Max(length, CreateColOffset(offsetRowArg) + Len(values[1]))
    /\ \A oldName \in ColNames, newName \in ColNames \cup {NoName} :
            renameColumn(Self, oldName, newName).length = length
    /\ \A e1 \in ColEntries :
            removeColumns(Self, <<e1>>, TRUE).length = length

(* A node with two columns and one committed row: createCol without        *)
(* values, with one value at row 0, renameColumn and removeColumns keep    *)
(* the length; createCol with values after the end extends it.             *)
ColumnEditsOnCommittedRows ==
    /\ Len(fieldNames) = 2
    /\ InList(fieldNames, "a")
    /\ length = 1
    /\ createCol(Self, NoName, None, 0, None, TRUE).length = 1
    /\ createCol(Self, "a", None, 0, Some(<<1>>), TRUE).length = 1
    /\ createCol(Self, "a", None, -1, Some(<<1, 1>>), TRUE).length = 3
    /\ renameColumn(Self, "a", "c").length = 1
    /\ removeColumns(Self, << <<"name", "a">> >>, TRUE).length = 1

(* C14: adding a field under a name that is already a column returns the   *)
(* index of that column and leaves the field list, the field map and the   *)
(* table, whatever the index asked for; so does createCol without values.  *)
AddExistingFieldChangesNothing ==
    \A i \in 1..Len(fieldNames), colIndexArg \in Optional((-2)..(MaxCols + 1)) :
        /\ \A adjustTable \in BOOLEAN :
            \A r \in {_addFields(Self, << <<fieldNames[i], colIndexArg>> >>, adjustTable)} :
                /\ ~r.s.raised
                /\ ~r.newField
                /\ r.colIndex = Some(i - 1)
                /\ r.s.fieldNames = fieldNames
                /\ r.s.fieldMap = fieldMap
                /\ r.s.table = table
        /\ \A r \in {createCol(Self, fieldNames[i], colIndexArg, 0, None, TRUE)} :
                /\ ~r.raised
                /\ r.fieldNames = fieldNames
                /\ r.fieldMap = fieldMap
                /\ r.table = table

(* A node with the columns a and b and data: adding b again at index 0     *)
(* returns index 1 and changes nothing.                                    *)
AddExistingFieldAtOtherIndex ==
    /\ fieldNames = <<"a", "b">>
    /\ length >= 1
    /\ table[1] = <<0, 1>>
    /\ LET r == _addFields(Self, << <<"b", Some(0)>> >>, TRUE)
       IN r.colIndex = Some(1) /\ r.s.fieldNames = fieldNames /\ r.s.table = table

(* The index at which a new column lands in a field list of n names.      *)
LandingIndex(n, colIndexArg) ==
    IF colIndexArg = None THEN n
    ELSE IF colIndexArg[1] < 0 THEN Max(0, n + colIndexArg[1] + 1)
    ELSE IF colIndexArg[1] > n THEN n
    ELSE colIndexArg[1]

(* C32: adding a field under a name that is not a column, in a field list  *)
(* of n names, puts the name at the index asked for when it is in 0 .. n,  *)
(* at max(0, n + index + 1) when it is negative, and at n when it is not   *)
(* given or greater than n; the other names keep their order.  The same    *)
(* holds for createCol.                                                    *)
NewFieldLandsAtIndex ==
    \A name \in (ColNames \cup {"c"}), colIndexArg \in Optional((-MaxCols - 2)..(MaxCols + 1)) :
        ~InList(fieldNames, name) =>
            LET n == Len(fieldNames)
                at == LandingIndex(n, colIndexArg)
            IN /\ \A r \in {_addFields(Self, << <<name, colIndexArg>> >>, TRUE)} :
                    /\ r.newField
                    /\ r.colIndex = Some(at)
                    /\ r.s.fieldNames =
                          SubSeq(fieldNames, 1, at) \o <<name>> \o SubSeq(fieldNames, at + 1, n)
               /\ createCol(Self, name, colIndexArg, 0, None, TRUE).fieldNames =
                          SubSeq(fieldNames, 1, at) \o <<name>> \o SubSeq(fieldNames, at + 1, n)

(* A node with the columns a and b: the field c lands at index 1 when the  *)
(* index asked for is 1 or -2, at 0 for -3 and -4, at 2 for -1, for 3 and  *)
(* when no index is given.                                                 *)
NewFieldBetweenColumns ==
    /\ fieldNames = <<"a", "b">>
    /\ createCol(Self, "c", Some(1), 0, None, TRUE).fieldNames = <<"a", "c", "b">>
    /\ createCol(Self, "c", Some(-2), 0, None, TRUE).fieldNames = <<"a", "c", "b">>
    /\ createCol(Self, "c", Some(-3), 0, None, TRUE).fieldNames = <<"c", "a", "b">>
    /\ createCol(Self, "c", Some(-4), 0, None, TRUE).fieldNames = <<"c", "a", "b">>
    /\ createCol(Self, "c", Some(-1), 0, None, TRUE).fieldNames = <<"a", "b", "c">>
    /\ createCol(Self, "c", Some(3), 0, None, TRUE).fieldNames = <<"a", "b", "c">>
    /\ createCol(Self, "c", None, 0, None, TRUE).fieldNames = <<"a", "b", "c">>

-----------------------------------------------------------------------------
(* Properties of the automatic column names (specification SpecNames)      *)

AllAutoNamesTaken == \A i \in 1..MaxAutoNames : InList(fieldNames, AutoName(i))

(* C15: when every name New_1 .. New_1000 is a column, the creation of a   *)
(* column without a name raises, and adds no column to the field list.     *)
AutoNameExhaustionRaises ==
    AllAutoNamesTaken =>
        \A r \in {createCol(Self, NoName, None, 0, None, TRUE)} :
            r.raised /\ r.fieldNames = fieldNames

(* C33: when some name New_n with n in 1 .. 1000 is not a column, the      *)
(* automatic name is New_n for the smallest such n, also when that n is    *)
(* 1000.                                                                   *)
AutoNameIsSmallestFree ==
    \A n \in 1..MaxAutoNames :
        (/\ ~InList(fieldNames, AutoName(n))
         /\ \A j \in 1..(n - 1) : InList(fieldNames, AutoName(j))) =>
            newColumnName(Self) = AutoName(n)

-----------------------------------------------------------------------------
(* Properties of the hierarchy (specification SpecTree)                    *)

(* C17: every node is in the children of at most one node and at most once *)
(* there, the parent of a node is P exactly when the node is in the        *)
(* children of P (and None exactly when it is in no list), and attaching a *)
(* node that has a parent removes it from the children of that parent.     *)
OneParentPerNode ==
    /\ \A p \in Nodes : \A i, j \in 1..Len(_children[p]) :
            _children[p][i].datacube = _children[p][j].datacube => i = j
    /\ \A n \in Nodes, p \in Nodes :
            _parent[n] = p <=> InList(children(Tree, p), n)
    /\ \A n \in Nodes :
            _parent[n] = NoParent <=> \A p \in Nodes : ~InList(children(Tree, p), n)
    /\ \A self \in Nodes, childCube \in Nodes, row \in Optional({1}) :
            (/\ childCube # self
             /\ _parent[childCube] # NoParent
             /\ _parent[childCube] # self) =>
                \A r \in {addChild(Tree, self, childCube, row)} :
                    /\ ~r.raised
                    /\ r.parent[childCube] = self
                    /\ InList(children(r, self), childCube)
                    /\ ~InList(children(r, _parent[childCube]), childCube)

(* Node 3 is the second child of node 1 and node 2 a child of node 4:      *)
(* addChild(2, 3) moves node 3 from the children of node 1 to those of     *)
(* node 2.                                                                 *)
ChildMovesToNewParent ==
    /\ children(Tree, 1) = <<4, 3>>
    /\ children(Tree, 4) = <<2>>
    /\ LET r == addChild(Tree, 2, 3, None)
       IN /\ children(r, 1) = <<4>>
          /\ children(r, 2) = <<3>>
          /\ r.parent[3] = 2

(* C18: addChild raises when the datacube is the node itself or already a  *)
(* child of the node, and then the children, the parents, the attributes   *)
(* and the flags of all nodes are as before and no event was notified.     *)
AddChildRejectsSelfAndDuplicate ==
    \A self \in Nodes, childCube \in Nodes, row \in Optional({1}) :
        (childCube = self \/ InList(children(Tree, self), childCube)) =>
            addChild(Tree, self, childCube, row) = [Tree EXCEPT !.raised = TRUE]

(* Node 2 is a child of node 1, with another child before it: addChild(1,  *)
(* 2) and addChild(1, 1) raise and change nothing.                         *)
AddChildOfChildRaises ==
    /\ children(Tree, 1) = <<3, 2>>
    /\ addChild(Tree, 1, 2, Some(1)).raised
    /\ addChild(Tree, 1, 2, Some(1)).children = _children
    /\ addChild(Tree, 1, 1, None).raised
    /\ ~addChild(Tree, 1, 4, None).raised

(* C19: on a hierarchy without a cycle, removeChild(child, true) on the     *)
(* parent of child detaches child and every node below it: each has no     *)
(* parent, and child and the nodes below it have no children.              *)
RemoveChildDetachesSubtree ==
    Acyclic(Tree) =>
        \A self \in Nodes, childCube \in Nodes :
            InList(children(Tree, self), childCube) =>
                \A r \in {removeChild(Tree, self, childCube, TRUE)} :
                    /\ ~r.raised
                    /\ ~InList(children(r, self), childCube)
                    /\ \A d \in {childCube} \cup Descendants(Tree, childCube) :
                            r.parent[d] = NoParent /\ r.children[d] = << >>

(* C20: addChild of a datacube from which the node is reached, other than  *)
(* the node itself and its children, does not raise, and the node is then  *)
(* reached from itself: the hierarchy has a cycle.                         *)
AddChildAcceptsAncestor ==
    \A self \in Nodes, childCube \in Nodes, row \in Optional({1}) :
        (/\ childCube # self
         /\ self \in Descendants(Tree, childCube)
         /\ ~InList(children(Tree, self), childCube)) =>
            \A r \in {addChild(Tree, self, childCube, row)} :
                /\ ~r.raised
                /\ InList(children(r, self), childCube)
                /\ r.parent[childCube] = self
                /\ self \in Descendants(r, self)

(* Node 3 is a child of node 2, node 2 a child of node 1, and node 1 a     *)
(* child of node 3: the hierarchy that addChild(3, 1) makes of the chain   *)
(* 1, 2, 3.                                                                *)
HierarchyWithCycle ==
    /\ children(Tree, 1) = <<2>>
    /\ children(Tree, 2) = <<3>>
    /\ children(Tree, 3) = <<1>>
    /\ _parent[1] = 3
    /\ 1 \in Descendants(Tree, 1)

-----------------------------------------------------------------------------
(* Properties of the attributes of the children (specification SpecAttach) *)

(* C21: every item of the children has an attribute row; after addChild   *)
(* without a row the attribute row of the new child is the cursor of the   *)
(* parent at the call, and after addChild with a row it is that row.       *)
ChildRowAttribute ==
    /\ \A p \in Nodes : \A i \in 1..Len(_children[p]) :
            /\ "row" \in DOMAIN _children[p][i].attributes
            /\ attributesOfChild(Tree, p, _children[p][i].datacube)
                    = Some(_children[p][i].attributes)
    /\ \A self \in Nodes, childCube \in Nodes, row \in Optional({1}) :
            \A r \in {addChild(Tree, self, childCube, row)} :
                ~r.raised =>
                    /\ attributesOfChild(r, self, childCube) # None
                    /\ attributesOfChild(r, self, childCube)[1].row
                            = IF row = None THEN Tree.index[self] ELSE row[1]

(* The cursor is at row 2, where node 2 was attached without a row: its    *)
(* attribute row is 2; node 3 was attached with the row 1.                 *)
ChildAttachedAtCursor ==
    /\ index = 2
    /\ children(Tree, 1) = <<3, 2>>
    /\ attributesOfChild(Tree, 1, 2) = Some([row |-> 2])
    /\ attributesOfChild(Tree, 1, 3) = Some([row |-> 1])

-----------------------------------------------------------------------------
(* Properties of the events and of the unsaved flag                        *)

(* The call that returned r has not raised and has changed the node.       *)
Mutated(r) ==
    /\ ~r.raised
    /\ <<r.fieldNames, r.fieldMap, r.table, r.length, r.index>>
            # <<fieldNames, fieldMap, table, length, index>>

(* C22: every call of set, commit, addRow, insertRow, removeRow,           *)
(* removeRows, clearRow, createCol, renameColumn, removeColumns, sortBy,   *)
(* addChild and removeChild with the default values of its optional        *)
(* arguments that changes the node has notified at least one event when it *)
(* returns.                                                                *)
MutationsNotify ==
    /\ \A keys \in RowKeys :
            \A r \in {set(Self, None, FALSE, FALSE, << >>, FALSE, keys)} :
                Mutated(r) => r.events # << >>
    /\ \A r \in {commit(Self, None, TRUE)} : Mutated(r) => r.events # << >>
    /\ \A r \in {addRow(Self, FALSE)} : Mutated(r) => r.events # << >>
    /\ \A keys \in RowKeys :
            \A r \in {insertRow(Self, None, TRUE, FALSE, FALSE, keys)} :
                Mutated(r) => r.events # << >>
    /\ \A row \in 0..MaxRow :
            \A r \in {removeRow(Self, row, FALSE)} : Mutated(r) => r.events # << >>
    /\ \A row \in 0..MaxRow :
            \A r \in {removeRows(Self, <<row>>, FALSE)} : Mutated(r) => r.events # << >>
    /\ \A r \in {clearRow(Self)} : Mutated(r) => r.events # << >>
    /\ \A name \in ColNames :
            \A r \in {createCol(Self, name, None, 0, None, TRUE)} :
                Mutated(r) => r.events # << >>
    /\ \A oldName \in ColNames, newName \in ColNames :
            \A r \in {renameColumn(Self, oldName, newName)} :
                Mutated(r) => r.events # << >>
    /\ \A name \in ColNames :
            \A r \in {removeColumns(Self, << <<"name", name>> >>, TRUE)} :
                Mutated(r) => r.events # << >>
    /\ \A reverse \in BOOLEAN :
            \A r \in {sortBy(Self, "a", reverse)} : Mutated(r) => r.events # << >>
    /\ \A self \in Nodes, childCube \in Nodes :
            \A r \in {addChild(Tree, self, childCube, None)} :
                (~r.raised /\ r.children # _children) => r.events # << >>
    /\ \A self \in Nodes, childCube \in Nodes :
            \A r \in {removeChild(Tree, self, childCube, FALSE)} :
                (~r.raised /\ r.children # _children) => r.events # << >>

(* C23: when the unsaved flag is clear, every call of set, commit,         *)
(* insertRow, removeRow, clearRow, sortBy, createCol, renameColumn,        *)
(* removeColumns, addChild and removeChild that returns without raising    *)
(* returns with the unsaved flag set.                                      *)
MutationsSetUnsaved ==
    ~unsaved =>
        /\ \A keys \in RowKeys, rowIndex \in Optional(0..MaxRow) :
                \A r \in {set(Self, rowIndex, FALSE, FALSE, << >>, FALSE, keys)} :
                    ~r.raised => r.unsaved
        /\ \A r \in {commit(Self, None, TRUE)} : ~r.raised => r.unsaved
        /\ \A keys \in RowKeys :
                \A r \in {insertRow(Self, None, TRUE, FALSE, FALSE, keys)} :
                    ~r.raised => r.unsaved
        /\ \A row \in 0..MaxRow :
                \A r \in {removeRow(Self, row, FALSE)} : ~r.raised => r.unsaved
        /\ \A r \in {clearRow(Self)} : ~r.raised => r.unsaved
        /\ \A name \in ColNames :
                \A r \in {createCol(Self, name, None, 0, None, TRUE)} :
                    ~r.raised => r.unsaved
        /\ \A oldName \in ColNames, newName \in ColNames :
                \A r \in {renameColumn(Self, oldName, newName)} :
                    ~r.raised => r.unsaved
        /\ \A name \in ColNames :
                \A r \in {removeColumns(Self, << <<"name", name>> >>, TRUE)} :
                    ~r.raised => r.unsaved
        /\ \A childCube \in Nodes :
                \A r \in {addChild(Tree, 1, childCube, None)} :
                    ~r.raised => r.unsaved[1]
        /\ \A childCube \in Nodes :
                \A r \in {removeChild(Tree, 1, childCube, FALSE)} :
                    ~r.raised => r.unsaved[1]
        /\ \A reverse \in BOOLEAN :
                \A r \in {sortBy(Self, "a", reverse)} : ~r.raised => r.unsaved

-----------------------------------------------------------------------------
(* Properties of search and sortBy                                         *)

(* The lists of keyword arguments of search: one or two criteria on the    *)
(* columns a and b and on c, which is never a column.                      *)
Criteria ==
    LET one == {<<n, v>> : n \in {"a", "b", "c"}, v \in {0, 1} \cup SearchValues}
    IN {<<c1>> : c1 \in one}
         \cup {<<c1, c2>> : c1 \in {c \in one : c[1] = "a"},
                            c2 \in {c \in one : c[1] # "a" /\ c[2] < 2}}

Ascending(seq) == \A i, j \in 1..Len(seq) : i < j => seq[i] < seq[j]

(* C24: search returns, in ascending order, exactly the indices i of 0 ..  *)
(* length - 1 at which every named column is equal to its expected value,  *)
(* and the empty list when a name is not a column.                         *)
SearchReturnsEqualRows ==
    \A kwargs \in Criteria :
        \A r \in {search(Self, kwargs)} :
            /\ ~r.raised
            /\ Ascending(r.value)
            /\ IF \E k \in 1..Len(kwargs) : ~InList(fieldNames, kwargs[k][1])
               THEN r.value = << >>
               ELSE \A i \in 0..Len(table) :
                        InList(r.value, i) <=>
                            /\ i < length
                            /\ \A k \in 1..Len(kwargs) :
                                    table[i + 1][fieldMap[kwargs[k][1]] + 1] = kwargs[k][2]

(* What search returns: in ascending order, the indices i of 0 .. length - *)
(* 1 at which every named column is equal to its expected value within the *)
(* tolerance of allclose, |expected - value| <= 1e-8 + 1e-5 * |value|, and *)
(* the empty list when a name is not a column.                             *)
SearchReturnsCloseRows ==
    \A kwargs \in Criteria :
        \A r \in {search(Self, kwargs)} :
            /\ ~r.raised
            /\ Ascending(r.value)
            /\ IF \E k \in 1..Len(kwargs) : ~InList(fieldNames, kwargs[k][1])
               THEN r.value = << >>
               ELSE \A i \in 0..Len(table) :
                        InList(r.value, i) <=>
                            /\ i < length
                            /\ \A k \in 1..Len(kwargs) :
                                    allclose(kwargs[k][2],
                                             table[i + 1][fieldMap[kwargs[k][1]] + 1])

(* Two committed rows and a staged row hold 100000 in a, and 1 in b in the *)
(* second row only: search(a=100000) and search(a=100001) return [0, 1],   *)
(* search(a=100000, b=1) returns [1], search(c=1) returns [].              *)
SearchSkipsStagedRow ==
    /\ fieldNames = <<"a", "b">>
    /\ length = 2
    /\ table[1] = <<100000, 0>>
    /\ table[2] = <<100000, 1>>
    /\ table[3] = <<100000, 1>>
    /\ search(Self, << <<"a", 100000>> >>).value = <<0, 1>>
    /\ search(Self, << <<"a", 100001>> >>).value = <<0, 1>>
    /\ search(Self, << <<"a", 100000>>, <<"b", 1>> >>).value = <<1>>
    /\ search(Self, << <<"c", 1>> >>).value = << >>

(* The number of times x is in seq.                                        *)
Count(seq, x) == Cardinality({i \in 1..Len(seq) : seq[i] = x})

(* C25: sortBy(column, reverse) that returns without raising leaves the    *)
(* length as it was, and the rows 0 .. length - 1 of the table are then    *)
(* the rows that were there before, each as many times as before, in       *)
(* non-decreasing order of the column, non-increasing when reverse is set. *)
(* It raises only when the column does not exist or the length is 0, and   *)
(* then changes nothing.                                                   *)
SortByPostcondition ==
    \A columnArg \in {"a", "b", "c"}, reverse \in BOOLEAN :
        \A r \in {sortBy(Self, columnArg, reverse)} :
            /\ r.length = length
            /\ r.raised <=> (~InList(fieldNames, columnArg) \/ length = 0)
            /\ r.raised => r.table = table
            /\ ~r.raised =>
                /\ Len(r.table) >= length
                /\ \A i \in 1..length :
                        Count(SubSeq(r.table, 1, length), table[i])
                            = Count(SubSeq(table, 1, length), table[i])
                /\ \A i \in 1..(length - 1) :
                        LET c == fieldMap[columnArg] + 1
                        IN IF reverse THEN r.table[i][c] >= r.table[i + 1][c]
                                      ELSE r.table[i][c] <= r.table[i + 1][c]

(* Two committed rows (100000, 1) and (100001, 0): sortBy("a", reverse)    *)
(* and sortBy("b") exchange them, sortBy("a") keeps them.                  *)
SortByMovesWholeRows ==
    /\ fieldNames = <<"a", "b">>
    /\ length = 2
    /\ table[1] = <<100000, 1>>
    /\ table[2] = <<100001, 0>>
    /\ SubSeq(sortBy(Self, "a", TRUE).table, 1, 2) = << <<100001, 0>>, <<100000, 1>> >>
    /\ SubSeq(sortBy(Self, "b", FALSE).table, 1, 2) = << <<100001, 0>>, <<100000, 1>> >>
    /\ SubSeq(sortBy(Self, "a", FALSE).table, 1, 2) = << <<100000, 1>>, <<100001, 0>> >>

-----------------------------------------------------------------------------
(* Properties of the writers that share a node (specification SpecRace)    *)

(* Both writers have called set() and none of them commit().               *)
BothStaged == \A w \in Writers : pc[w] = "commit"

AllDone == \A w \in Writers : pc[w] = "done"

(* The validated part of the table has a row with the value of writer w.   *)
HasRowOf(w) ==
    \E i \in 1..Min(length, Len(table)) : table[i][fieldMap["a"] + 1] = WriterValue(w)

(* C26: in every execution in which no writer calls set() between the      *)
(* set() and the commit() of the other one, the table holds the rows of    *)
(* both writers when both have committed.  (The interleaving that loses a  *)
(* row is the state RaceLosesRow.)                                         *)
SerialWritersKeepBothRows ==
    [](~BothStaged) => [](AllDone => \A w \in Writers : HasRowOf(w))

(* Both writers have committed and the table holds the row of one of them  *)
(* only: the state after set(), set(), commit(), commit().                 *)
RaceLosesRow ==
    /\ AllDone
    /\ \E w \in Writers : ~HasRowOf(w)
    /\ \E w \in Writers : HasRowOf(w)

-----------------------------------------------------------------------------
(* Properties of the column names in a hierarchy (specification SpecFamily) *)

(* The nodes of level k below self: self at level 0, then the children of  *)
(* the nodes of the level above, in order.                                 *)
RECURSIVE CubesOfLevel(_, _, _)
CubesOfLevel(h, self, k) ==
    IF k = 0 THEN <<self>>
    ELSE LET above == CubesOfLevel(h, self, k - 1)
         IN Concat([i \in 1..Len(above) |-> children(h, above[i])])

(* The names of the first node of the list that all the nodes of the list  *)
(* have, in the order of the first node.                                   *)
Intersection(h, cubes) ==
    SelectSeq(h.fieldNames[cubes[1]],
              LAMBDA name : \A i \in 1..Len(cubes) : InList(h.fieldNames[cubes[i]], name))

(* The lists of the levels k, k + 1, ... up to the first level that has no *)
(* node or no common name, that level excluded.                            *)
RECURSIVE CommonNamesFrom(_, _, _)
CommonNamesFrom(h, self, k) ==
    LET cubes == CubesOfLevel(h, self, k)
    IN IF Len(cubes) = 0 \/ k > MaxNodes THEN << >>
       ELSE IF Len(Intersection(h, cubes)) = 0 THEN << >>
       ELSE <<Intersection(h, cubes)>> \o CommonNamesFrom(h, self, k + 1)

(* C27: commonNames() is the list of the names of the node followed, for   *)
(* the levels 1, 2, ... below it, by the list of the names that all the    *)
(* nodes of the level have, in order, up to the first level without common *)
(* name, for which no list is in the result.                               *)
CommonNamesPerLevel ==
    \A self \in Nodes :
        \A r \in {commonNames(Tree, self)} :
            /\ ~r.cut
            /\ r.value = <<Tree.fieldNames[self]>> \o CommonNamesFrom(Tree, self, 1)

(* The deepest level below self that all the branches reach: the greatest *)
(* k such that every node of the levels above k has children.              *)
DeepestCommonLevel(h, self) ==
    CHOOSE k \in 0..MaxNodes :
        /\ \A j \in 0..(k - 1) :
              \A i \in 1..Len(CubesOfLevel(h, self, j)) :
                  Len(children(h, CubesOfLevel(h, self, j)[i])) > 0
        /\ k = MaxNodes \/
              \E i \in 1..Len(CubesOfLevel(h, self, k)) :
                  Len(children(h, CubesOfLevel(h, self, k)[i])) = 0

(* C30: names(includeChildren=True), with upToLevel = -1 and flatten by    *)
(* default, does not raise and returns the column names of the node        *)
(* followed by the column names of the nodes of the levels below it, down  *)
(* to the deepest level that all the branches reach.                       *)
NamesWithChildren ==
    \A self \in Nodes :
        \A r \in {names(Tree, self, TRUE, -1, TRUE)} :
            /\ ~r.raised
            /\ r.value.list = Tree.fieldNames[self]
            /\ r.value.rest =
                  UNION {UNION {{Tree.fieldNames[CubesOfLevel(Tree, self, k)[i]][j] :
                                    j \in 1..Len(Tree.fieldNames[CubesOfLevel(Tree, self, k)[i]])} :
                                i \in 1..Len(CubesOfLevel(Tree, self, k))} :
                         k \in 1..DeepestCommonLevel(Tree, self)}

-----------------------------------------------------------------------------
(* Properties of the buffer (specifications SpecBuffer and SpecAppend)     *)

AppendResizesOncePerReserve ==
    [][Len(table') # Len(table) =>
            /\ Len(table') - Len(table) >= Reserve
            /\ index >= Len(table)
            /\ Len(table') >= index + 1 + Reserve]_vars

(* The table has been resized a second time, when the cursor reached its   *)
(* end, and the rows appended before are still there.                      *)
AppendResizedTwice ==
    /\ length = Reserve + 2
    /\ index = length
    /\ Len(table) = 2 * (Reserve + 2)
    /\ table[length] = <<1>>

-----------------------------------------------------------------------------
(* Properties of the depths (specification SpecTree)                       *)

(* The number of steps of the longest branch below self, in a hierarchy    *)
(* without a cycle.                                                        *)
DeepestLevel(h, self) ==
    CHOOSE k \in 0..MaxNodes :
        /\ Len(CubesOfLevel(h, self, k)) > 0
        /\ Len(CubesOfLevel(h, self, k + 1)) = 0

(* C31: in a hierarchy without a cycle, commonDepth() of a node is the     *)
(* level of the nearest node without children below it, maxDepth() is the  *)
(* level of the farthest one, and commonDepth() <= maxDepth().             *)
DepthsOfAcyclicHierarchy ==
    Acyclic(Tree) =>
        \A self \in Nodes :
            \A c \in {commonDepth(Tree, self)}, m \in {maxDepth(Tree, self, 0)} :
                /\ ~c.diverges /\ ~m.diverges
                /\ c.value = DeepestCommonLevel(Tree, self)
                /\ m.value = DeepestLevel(Tree, self)
                /\ c.value <= m.value

(* Node 1 has the children 2 and 3, and node 3 the child 4: commonDepth()  *)
(* of node 1 is 1 and maxDepth() is 2.                                     *)
BranchesOfUnequalDepth ==
    /\ children(Tree, 1) = <<2, 3>>
    /\ children(Tree, 2) = << >>
    /\ children(Tree, 3) = <<4>>
    /\ children(Tree, 4) = << >>
    /\ commonDepth(Tree, 1).value = 1
    /\ maxDepth(Tree, 1, 0).value = 2

(* C39: on every hierarchy reached from fresh nodes by addChild and        *)
(* removeChild calls, maxDepth() and commonDepth() of every node return.   *)
DepthsTerminate ==
    \A self \in Nodes :
        /\ ~commonDepth(Tree, self).diverges
        /\ ~maxDepth(Tree, self, 0).diverges

(***************************************************************************)
(* C34: after setChildAttributes(child, key = value) on an attached child, *)
(* attributesOfChild(child) returns a map in which key has that value.     *)
(***************************************************************************)
SetChildAttributesIsRead ==
    \A childCube \in Nodes, key \in {"row", "tag"}, value \in 0..MaxRow :
        InList(children(Tree, 1), childCube)
            => \A h \in {setChildAttributes(Tree, 1, childCube, key, value)} :
                 \A attributes \in {attributesOfChild(h, 1, childCube)} :
                    /\ ~h.raised
                    /\ attributes # None
                    /\ key \in DOMAIN attributes[1]
                    /\ attributes[1][key] = value

(* The parent of a node is p exactly when the node is among the children   *)
(* of p.                                                                   *)
Consistent(d) ==
    \A n \in Nodes, p \in Nodes :
        (d.parent[n] = p) <=> (\E i \in 1..Len(d.children[p]) : d.children[p][i].datacube = n)

(* The removeChild event of the previous parent comes before the addChild  *)
(* event of the new one.                                                   *)
DetachedBeforeAttached(h, old, self, childCube) ==
    \A j \in 1..Len(h.events) :
        h.events[j] = <<self, "addChild", childCube>>
            => \E i \in 1..(j - 1) : h.events[i] = <<old, "removeChild", childCube>>

(***************************************************************************)
(* C35: at every event that addChild or removeChild delivers, the parent   *)
(* of a node is p exactly when the node is among the children of p, and    *)
(* when a child moves to a new parent the removeChild event of the old     *)
(* parent comes before the addChild event of the new one.                  *)
(***************************************************************************)
EventsFindConsistentHierarchy ==
    Consistent(Tree) =>
        \A self \in Nodes, childCube \in Nodes :
            /\ \A h \in {addChild(Tree, self, childCube, None)} :
                 ~h.raised =>
                    /\ \A k \in 1..Len(h.delivered) : Consistent(h.delivered[k])
                    /\ _parent[childCube] # NoParent
                         => DetachedBeforeAttached(h, _parent[childCube], self, childCube)
            /\ \A h \in {removeChild(Tree, self, childCube, FALSE)} :
                 ~h.raised => \A k \in 1..Len(h.delivered) : Consistent(h.delivered[k])

(***************************************************************************)
(* C36: sortBy changes only the order of the validated rows: the buffer    *)
(* keeps its number of rows and the rows from length on are left as they   *)
(* are, so that a row written by set() before sortBy is the row a later    *)
(* commit() validates.                                                     *)
(***************************************************************************)
SortByKeepsStagedRows ==
    \A columnArg \in {"a", "b"}, reverse \in BOOLEAN :
        \A r \in {sortBy(Self, columnArg, reverse)} :
            ~r.raised =>
                /\ Len(r.table) = Len(table)
                /\ \A i \in (length + 1)..Len(table) : r.table[i] = table[i]
                /\ (index >= length /\ index < Len(table)) =>
                      \A c \in {commit(r, None, TRUE)} :
                          ~c.raised => c.table[index + 1] = table[index + 1]

(* The value the keyword arguments give to the column, 0 when they do not  *)
(* name it.                                                                *)
SuppliedOrZero(keys, name) ==
    IF \E k \in 1..Len(keys) : keys[k][1] = name
    THEN keys[CHOOSE k \in 1..Len(keys) : keys[k][1] = name][2]
    ELSE 0

(***************************************************************************)
(* C37: after insertRow at a row i below length, row i holds the supplied  *)
(* values in the supplied columns and zero in every other column.          *)
(***************************************************************************)
InsertedRowIsZeroElsewhere ==
    \A i \in 0..(length - 1), commitArg \in BOOLEAN, keys \in RowKeys \cup {<< >>} :
        \A r \in {insertRow(Self, Some(i), TRUE, FALSE, commitArg, keys)} :
            ~r.raised =>
                \A c \in 1..Len(r.fieldNames) :
                    r.table[i + 1][r.fieldMap[r.fieldNames[c]] + 1]
                        = SuppliedOrZero(keys, r.fieldNames[c])

(***************************************************************************)
(* C38: the row attribute of every child that was attached without a row   *)
(* attribute is a row of its parent or the row after the last one,         *)
(* 0 <= row <= length, whatever rows the parent validates and removes.     *)
(***************************************************************************)
ChildRowWithinLength ==
    \A i \in 1..Len(_children[1]) :
        /\ 0 <= _children[1][i].attributes.row
        /\ _children[1][i].attributes.row <= length

====
